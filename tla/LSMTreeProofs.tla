---------------------------- MODULE LSMTreeProofs ----------------------------
(***************************************************************************)
(* Theorems about LSMTree, for any keys, levels, writes and sizes: the     *)
(* order of the levels (LevelsInv), what they hold (EntriesInv), where the *)
(* newer entries are (NewerInv), the sizes ApproximateOffsetOf adds up,    *)
(* and that the tree is the map of db.h (LatestInv).                       *)
(***************************************************************************)
EXTENDS LSMTree, FiniteSetTheorems, SequenceTheorems, WellFoundedInduction, TLAPS

-----------------------------------------------------------------------------
(* Induction over an interval, recursion, and the order of a finite set    *)

\* A set of indices with the first one, and with every next one, has all.
LEMMA AllIndices ==
  ASSUME NEW b \in Int, NEW n \in Int, NEW I, b \in I,
         \A i \in b + 1 .. n : i - 1 \in I => i \in I
  PROVE  b .. n \subseteq I
<1> DEFINE Missing == {k \in Nat : b + k <= n /\ b + k \notin I}
<1>1. Missing = {}
  <2> SUFFICES ASSUME Missing # {} PROVE FALSE
    OBVIOUS
  <2>1. PICK k \in Missing : \A j \in Missing : ~(<<j, k>> \in OpToRel(<, Nat))
    BY WFMin, NatLessThanWellFounded
  <2>2. k \in Nat /\ b + k <= n /\ b + k \notin I
    OBVIOUS
  <2>3. k # 0
    BY <2>2
  <2>4. k - 1 \in Nat /\ k - 1 < k
    BY <2>2, <2>3
  <2>5. k - 1 \notin Missing
    BY <2>1, <2>2, <2>4 DEF OpToRel
  <2>6. b + (k - 1) \in I
    BY <2>2, <2>4, <2>5
  <2>7. b + k \in b + 1 .. n /\ (b + k) - 1 = b + (k - 1)
    BY <2>2, <2>3
  <2> QED BY <2>2, <2>6, <2>7
<1>2. ASSUME NEW i \in b .. n PROVE i \in I
  <2>1. i \in Int /\ b <= i /\ i <= n
    OBVIOUS
  <2> DEFINE k == i - b
  <2>2. k \in Nat /\ b + k = i
    BY <2>1
  <2>3. k \notin Missing
    BY <1>1
  <2> HIDE DEF k
  <2> QED BY <2>1, <2>2, <2>3
<1> QED BY <1>2

\* The functions defined by a first value and by a step from each to the next.
Recursions(b, n, S, a, G) ==
  {f \in [b .. n -> S] : f[b] = a /\ \A i \in b + 1 .. n : f[i] = G[i][f[i - 1]]}

\* A recursive function over an interval exists.
LEMMA RecursionExists ==
  ASSUME NEW b \in Int, NEW n \in Int, b <= n, NEW S, NEW a \in S,
         NEW G \in [b + 1 .. n -> [S -> S]]
  PROVE  Recursions(b, n, S, a, G) # {}
<1> DEFINE Up(m, f) == f[b] = a /\ \A i \in b + 1 .. m : f[i] = G[i][f[i - 1]]
           I == {m \in b .. n : \E f \in [b .. m -> S] : Up(m, f)}
<1>1. b \in I
  <2> DEFINE f == [i \in b .. b |-> a]
  <2>1. f \in [b .. b -> S] /\ f[b] = a
    OBVIOUS
  <2>2. b + 1 .. b = {} /\ b \in b .. n
    OBVIOUS
  <2> HIDE DEF f
  <2>3. Up(b, f)
    BY <2>1, <2>2
  <2> QED BY <2>1, <2>2, <2>3
<1>2. ASSUME NEW m \in b + 1 .. n, m - 1 \in I PROVE m \in I
  <2>1. PICK f \in [b .. m - 1 -> S] : Up(m - 1, f)
    BY <1>2
  <2> DEFINE g == [i \in b .. m |-> IF i < m THEN f[i] ELSE G[m][f[m - 1]]]
  <2>2. m - 1 \in b .. m - 1 /\ m \in b .. n
    OBVIOUS
  <2>3. G[m][f[m - 1]] \in S
    BY <2>2
  <2>4. g \in [b .. m -> S]
    BY <2>3
  <2>5. g[b] = a
    BY <2>1
  <2>6. ASSUME NEW i \in b + 1 .. m PROVE g[i] = G[i][g[i - 1]]
    <3>1. CASE i = m
      BY <3>1
    <3>2. CASE i # m
      BY <2>1, <3>2
    <3> QED BY <3>1, <3>2
  <2> QED BY <2>2, <2>4, <2>5, <2>6
<1>3. b .. n \subseteq I
  BY <1>1, <1>2, AllIndices
<1>4. n \in I
  BY <1>3
<1> QED BY <1>4 DEF Recursions

\* In a finite set that R orders, x has as many predecessors as its place says.
Predecessors(S, R, x) == {y \in S : <<y, x>> \in R}
Orders(R, S) ==
  /\ \A x, y \in S : <<x, y>> \in R => <<y, x>> \notin R
  /\ \A x, y, z \in S : <<x, y>> \in R /\ <<y, z>> \in R => <<x, z>> \in R
  /\ \A x, y \in S : x # y => <<x, y>> \in R \/ <<y, x>> \in R

\* In a total order of a finite set every place from the first to the last is
\* taken by one element.
LEMMA PlacesExist ==
  ASSUME NEW S, IsFiniteSet(S), NEW R, Orders(R, S)
  PROVE  /\ Cardinality(S) \in Nat
         /\ \A i \in 1 .. Cardinality(S) : \E x \in S : Cardinality(Predecessors(S, R, x)) = i - 1
         /\ \A x \in S : Cardinality(Predecessors(S, R, x)) + 1 \in 1 .. Cardinality(S)
         /\ \A x, y \in S : Cardinality(Predecessors(S, R, x)) < Cardinality(Predecessors(S, R, y)) => <<x, y>> \in R
         /\ \A x, y \in S : Cardinality(Predecessors(S, R, x)) = Cardinality(Predecessors(S, R, y)) => x = y
<1> DEFINE n == Cardinality(S)
           place == [x \in S |-> Cardinality(Predecessors(S, R, x)) + 1]
<1>1. n \in Nat
  BY FS_CardinalityType
<1>2. \A x \in S : IsFiniteSet(Predecessors(S, R, x)) /\ Cardinality(Predecessors(S, R, x)) \in Nat
  BY FS_Subset, FS_CardinalityType DEF Predecessors
<1>3. ASSUME NEW x \in S, NEW y \in S, <<x, y>> \in R
      PROVE  Cardinality(Predecessors(S, R, x)) < Cardinality(Predecessors(S, R, y))
  <2>1. Predecessors(S, R, x) \subseteq Predecessors(S, R, y) /\ x \in Predecessors(S, R, y) /\ x \notin Predecessors(S, R, x)
    BY <1>3 DEF Predecessors, Orders
  <2>2. IsFiniteSet(Predecessors(S, R, y)) /\ Predecessors(S, R, x) # Predecessors(S, R, y)
    BY <1>2, <2>1
  <2>3. /\ Cardinality(Predecessors(S, R, x)) <= Cardinality(Predecessors(S, R, y))
        /\ Cardinality(Predecessors(S, R, x)) # Cardinality(Predecessors(S, R, y))
    BY <2>1, <2>2, FS_Subset
  <2> QED BY <1>2, <2>3
<1>4. \A x, y \in S : x # y => Cardinality(Predecessors(S, R, x)) # Cardinality(Predecessors(S, R, y))
  <2> SUFFICES ASSUME NEW x \in S, NEW y \in S, x # y
               PROVE  Cardinality(Predecessors(S, R, x)) # Cardinality(Predecessors(S, R, y))
    OBVIOUS
  <2>1. <<x, y>> \in R \/ <<y, x>> \in R
    BY DEF Orders
  <2>2. /\ Cardinality(Predecessors(S, R, x)) \in Nat
        /\ Cardinality(Predecessors(S, R, y)) \in Nat
    BY <1>2
  <2> QED BY <1>3, <2>1, <2>2
<1>5. ASSUME NEW x \in S PROVE place[x] \in 1 .. n
  <2>1. Predecessors(S, R, x) \subseteq S /\ x \in S /\ x \notin Predecessors(S, R, x)
    BY DEF Predecessors, Orders
  <2>2. Cardinality(Predecessors(S, R, x)) <= n /\ Cardinality(Predecessors(S, R, x)) # n
    BY <2>1, FS_Subset
  <2> QED BY <1>1, <1>2, <2>2
<1>6. place \in Injection(S, 1 .. n)
  <2>1. place \in [S -> 1 .. n]
    BY <1>5
  <2>2. \A x, y \in S : place[x] = place[y] => x = y
    BY <1>2, <1>4
  <2> QED BY <2>1, <2>2 DEF Injection, IsInjective
<1>7. Cardinality(1 .. n) = n /\ IsFiniteSet(1 .. n)
  BY <1>1, FS_Interval
<1>8. place \in Surjection(S, 1 .. n)
  BY <1>6, <1>7, FS_Injection
<1>9. \A i \in 1 .. n : \E x \in S : place[x] = i
  BY <1>8 DEF Surjection
<1>10. \A i \in 1 .. n : \E x \in S : Cardinality(Predecessors(S, R, x)) = i - 1
  <2> SUFFICES ASSUME NEW i \in 1 .. n PROVE \E x \in S : Cardinality(Predecessors(S, R, x)) = i - 1
    OBVIOUS
  <2>1. PICK x \in S : place[x] = i
    BY <1>9
  <2> QED BY <1>2, <2>1
<1>11. \A x, y \in S : Cardinality(Predecessors(S, R, x)) < Cardinality(Predecessors(S, R, y)) => <<x, y>> \in R
  <2> SUFFICES ASSUME NEW x \in S, NEW y \in S, <<x, y>> \notin R,
                      Cardinality(Predecessors(S, R, x)) < Cardinality(Predecessors(S, R, y))
               PROVE  FALSE
    OBVIOUS
  <2>1. x # y
    BY <1>2
  <2>2. <<y, x>> \in R
    BY <2>1 DEF Orders
  <2> QED BY <1>2, <1>3, <2>2
<1> QED BY <1>1, <1>4, <1>5, <1>10, <1>11

\* Every element of a list that orders S by R has its place; so the list has
\* all of S, and in the order of R.
Enumerates(list, S, R) ==
  /\ DOMAIN list = 1 .. Cardinality(S) /\ list \in Seq(S)
  /\ \A i \in DOMAIN list : list[i] \in S
  /\ \A x \in S : \E i \in DOMAIN list : list[i] = x
  /\ \A i, j \in DOMAIN list : i < j => <<list[i], list[j]>> \in R

\* A list that has at each place the element with so many predecessors lists
\* the set in order.
LEMMA ListInOrder ==
  ASSUME NEW S, IsFiniteSet(S), NEW R, Orders(R, S),
         NEW list, list = [i \in 1 .. Cardinality(S) |-> list[i]],
         \A i \in 1 .. Cardinality(S) : list[i] \in S /\ Cardinality(Predecessors(S, R, list[i])) = i - 1
  PROVE  Enumerates(list, S, R)
<1>1. Cardinality(S) \in Nat
  BY FS_CardinalityType
<1>2. DOMAIN list = 1 .. Cardinality(S) /\ list \in Seq(S)
  BY <1>1
<1>3. ASSUME NEW x \in S PROVE \E i \in DOMAIN list : list[i] = x
  <2> DEFINE i == Cardinality(Predecessors(S, R, x)) + 1
  <2>1. i \in 1 .. Cardinality(S) /\ Cardinality(Predecessors(S, R, x)) \in Nat
    <3>1. Cardinality(Predecessors(S, R, x)) + 1 \in 1 .. Cardinality(S)
      BY PlacesExist
    <3>2. IsFiniteSet(Predecessors(S, R, x))
      BY FS_Subset DEF Predecessors
    <3> QED BY <3>1, <3>2, FS_CardinalityType
  <2>2. Cardinality(Predecessors(S, R, list[i])) = Cardinality(Predecessors(S, R, x)) /\ list[i] \in S
    BY <2>1
  <2>3. list[i] = x
    BY <2>2, PlacesExist
  <2> QED BY <1>2, <2>1, <2>3
<1>4. ASSUME NEW i \in DOMAIN list, NEW j \in DOMAIN list, i < j PROVE <<list[i], list[j]>> \in R
  <2>1. /\ list[i] \in S /\ list[j] \in S
        /\ Cardinality(Predecessors(S, R, list[i])) < Cardinality(Predecessors(S, R, list[j]))
    BY <1>1, <1>2, <1>4
  <2> QED BY <2>1, PlacesExist
<1> QED BY <1>2, <1>3, <1>4 DEF Enumerates

\* Sorted enumerates a set of numbers, for Select.
LEMMA SortedNumbers ==
  ASSUME NEW S, IsFiniteSet(S), S \subseteq Int
  PROVE  Enumerates(Sorted(S, LAMBDA i, j : i < j), S, {p \in S \X S : p[1] < p[2]})
<1> DEFINE R == {p \in S \X S : p[1] < p[2]}
           list == Sorted(S, LAMBDA i, j : i < j)
           At(i) == CHOOSE x \in S : Cardinality({y \in S : y < x}) = i - 1
<1>1. Orders(R, S)
  BY DEF Orders
<1>2. \A x \in S : {y \in S : y < x} = Predecessors(S, R, x)
  BY DEF Predecessors
<1>3. list = [i \in 1 .. Cardinality(S) |-> At(i)]
  BY DEF Sorted
<1> HIDE DEF R, list
<1>4. \A i \in 1 .. Cardinality(S) : \E x \in S : Cardinality(Predecessors(S, R, x)) = i - 1
  BY ONLY <1>1, IsFiniteSet(S), PlacesExist
<1>5. ASSUME NEW i \in 1 .. Cardinality(S)
      PROVE  At(i) \in S /\ Cardinality(Predecessors(S, R, At(i))) = i - 1
  <2>1. \E x \in S : Cardinality({y \in S : y < x}) = i - 1
    BY <1>2, <1>4
  <2>2. At(i) \in S /\ Cardinality({y \in S : y < At(i)}) = i - 1
    BY <2>1
  <2> QED BY <1>2, <2>2
<1> HIDE DEF At
<1>6. list = [i \in 1 .. Cardinality(S) |-> list[i]]
  BY <1>3
<1>7. \A i \in 1 .. Cardinality(S) :
        list[i] \in S /\ Cardinality(Predecessors(S, R, list[i])) = i - 1
  BY <1>3, <1>5
<1>8. Enumerates(list, S, R)
  BY ONLY <1>1, <1>6, <1>7, IsFiniteSet(S), ListInOrder
<1> QED BY <1>8 DEF R, list

-----------------------------------------------------------------------------
(* Sorted and Select                                                       *)

\* Sorted enumerates entries, files by their smallest key, files by number.
LEMMA SortedEntries ==
  ASSUME NEW S, IsFiniteSet(S), Orders({p \in S \X S : Less(p[1], p[2])}, S)
  PROVE  Enumerates(Sorted(S, Less), S, {p \in S \X S : Less(p[1], p[2])})
<1> DEFINE R == {p \in S \X S : Less(p[1], p[2])}
           list == Sorted(S, Less)
           At(i) == CHOOSE x \in S : Cardinality({y \in S : Less(y, x)}) = i - 1
<1>1. \A x \in S : {y \in S : Less(y, x)} = Predecessors(S, R, x)
  BY DEF Predecessors
<1>2. list = [i \in 1 .. Cardinality(S) |-> At(i)]
  BY DEF Sorted
<1>3. Orders(R, S)
  OBVIOUS
<1> HIDE DEF R, list
<1>4. \A i \in 1 .. Cardinality(S) : \E x \in S : Cardinality(Predecessors(S, R, x)) = i - 1
  BY ONLY <1>3, IsFiniteSet(S), PlacesExist
<1>5. ASSUME NEW i \in 1 .. Cardinality(S)
      PROVE  At(i) \in S /\ Cardinality(Predecessors(S, R, At(i))) = i - 1
  <2>1. \E x \in S : Cardinality({y \in S : Less(y, x)}) = i - 1
    BY <1>1, <1>4
  <2>2. At(i) \in S /\ Cardinality({y \in S : Less(y, At(i))}) = i - 1
    BY <2>1
  <2> QED BY <1>1, <2>2
<1> HIDE DEF At
<1>6. list = [i \in 1 .. Cardinality(S) |-> list[i]]
  BY <1>2
<1>7. \A i \in 1 .. Cardinality(S) :
        list[i] \in S /\ Cardinality(Predecessors(S, R, list[i])) = i - 1
  BY <1>2, <1>5
<1>8. Enumerates(list, S, R)
  BY ONLY <1>3, <1>6, <1>7, IsFiniteSet(S), ListInOrder
<1> QED BY <1>8 DEF R, list

\* Sorted lists files by their smallest keys (BySmallestKey of the builder).
LEMMA SortedFiles ==
  ASSUME NEW S, IsFiniteSet(S), Orders({p \in S \X S : BySmallestKey(p[1], p[2])}, S)
  PROVE  Enumerates(Sorted(S, BySmallestKey), S, {p \in S \X S : BySmallestKey(p[1], p[2])})
<1> DEFINE R == {p \in S \X S : BySmallestKey(p[1], p[2])}
           list == Sorted(S, BySmallestKey)
           At(i) == CHOOSE x \in S : Cardinality({y \in S : BySmallestKey(y, x)}) = i - 1
<1>1. \A x \in S : {y \in S : BySmallestKey(y, x)} = Predecessors(S, R, x)
  BY DEF Predecessors
<1>2. list = [i \in 1 .. Cardinality(S) |-> At(i)]
  BY DEF Sorted
<1>3. Orders(R, S)
  OBVIOUS
<1> HIDE DEF R, list
<1>4. \A i \in 1 .. Cardinality(S) : \E x \in S : Cardinality(Predecessors(S, R, x)) = i - 1
  BY ONLY <1>3, IsFiniteSet(S), PlacesExist
<1>5. ASSUME NEW i \in 1 .. Cardinality(S)
      PROVE  At(i) \in S /\ Cardinality(Predecessors(S, R, At(i))) = i - 1
  <2>1. \E x \in S : Cardinality({y \in S : BySmallestKey(y, x)}) = i - 1
    BY <1>1, <1>4
  <2>2. At(i) \in S /\ Cardinality({y \in S : BySmallestKey(y, At(i))}) = i - 1
    BY <2>1
  <2> QED BY <1>1, <2>2
<1> HIDE DEF At
<1>6. list = [i \in 1 .. Cardinality(S) |-> list[i]]
  BY <1>2
<1>7. \A i \in 1 .. Cardinality(S) :
        list[i] \in S /\ Cardinality(Predecessors(S, R, list[i])) = i - 1
  BY <1>2, <1>5
<1>8. Enumerates(list, S, R)
  BY ONLY <1>3, <1>6, <1>7, IsFiniteSet(S), ListInOrder
<1> QED BY <1>8 DEF R, list

\* Sorted lists files with the newest first (NewestFirst of Version::Get).
LEMMA SortedNewest ==
  ASSUME NEW S, IsFiniteSet(S), Orders({p \in S \X S : NewestFirst(p[1], p[2])}, S)
  PROVE  Enumerates(Sorted(S, NewestFirst), S, {p \in S \X S : NewestFirst(p[1], p[2])})
<1> DEFINE R == {p \in S \X S : NewestFirst(p[1], p[2])}
           list == Sorted(S, NewestFirst)
           At(i) == CHOOSE x \in S : Cardinality({y \in S : NewestFirst(y, x)}) = i - 1
<1>1. \A x \in S : {y \in S : NewestFirst(y, x)} = Predecessors(S, R, x)
  BY DEF Predecessors
<1>2. list = [i \in 1 .. Cardinality(S) |-> At(i)]
  BY DEF Sorted
<1>3. Orders(R, S)
  OBVIOUS
<1> HIDE DEF R, list
<1>4. \A i \in 1 .. Cardinality(S) : \E x \in S : Cardinality(Predecessors(S, R, x)) = i - 1
  BY ONLY <1>3, IsFiniteSet(S), PlacesExist
<1>5. ASSUME NEW i \in 1 .. Cardinality(S)
      PROVE  At(i) \in S /\ Cardinality(Predecessors(S, R, At(i))) = i - 1
  <2>1. \E x \in S : Cardinality({y \in S : NewestFirst(y, x)}) = i - 1
    BY <1>1, <1>4
  <2>2. At(i) \in S /\ Cardinality({y \in S : NewestFirst(y, At(i))}) = i - 1
    BY <2>1
  <2> QED BY <1>1, <2>2
<1> HIDE DEF At
<1>6. list = [i \in 1 .. Cardinality(S) |-> list[i]]
  BY <1>2
<1>7. \A i \in 1 .. Cardinality(S) :
        list[i] \in S /\ Cardinality(Predecessors(S, R, list[i])) = i - 1
  BY <1>2, <1>5
<1>8. Enumerates(list, S, R)
  BY ONLY <1>3, <1>6, <1>7, IsFiniteSet(S), ListInOrder
<1> QED BY <1>8 DEF R, list

-----------------------------------------------------------------------------
(* Internal keys                                                           *)

IKey == [key : Int, seq : Nat, type : {kTypeDeletion, kTypeValue}]

\* InternalKeyComparator is a strict total order, and user keys come first in it.
LEMMA KeyOrder ==
  /\ \A a \in IKey : ~Less(a, a)
  /\ \A a, b \in IKey : Less(a, b) => ~Less(b, a) /\ a # b
  /\ \A a, b, c \in IKey : Less(a, b) /\ Less(b, c) => Less(a, c)
  /\ \A a, b, c \in IKey : LessEq(a, b) /\ Less(b, c) => Less(a, c)
  /\ \A a, b, c \in IKey : Less(a, b) /\ LessEq(b, c) => Less(a, c)
  /\ \A a, b \in IKey : Less(a, b) \/ a = b \/ Less(b, a)
  /\ \A a, b \in IKey : LessEq(a, b) \/ Less(a, b) => a.key <= b.key
  /\ \A a, b \in IKey : a.key < b.key => Less(a, b)
<1> USE DEF IKey, Less, LessEq, kTypeDeletion, kTypeValue
<1>1. \A a, b \in IKey : a = b <=> a.key = b.key /\ a.seq = b.seq /\ a.type = b.type
  OBVIOUS
<1>2. \A a \in IKey : ~Less(a, a)
  OBVIOUS
<1>3. \A a, b \in IKey : Less(a, b) => ~Less(b, a) /\ a # b
  OBVIOUS
<1>4. \A a, b, c \in IKey : Less(a, b) /\ Less(b, c) => Less(a, c)
  OBVIOUS
<1>5. \A a, b, c \in IKey : LessEq(a, b) /\ Less(b, c) => Less(a, c)
  OBVIOUS
<1>6. \A a, b, c \in IKey : Less(a, b) /\ LessEq(b, c) => Less(a, c)
  OBVIOUS
<1>7. \A a, b \in IKey : Less(a, b) \/ a = b \/ Less(b, a)
  BY <1>1
<1>8. \A a, b \in IKey : LessEq(a, b) \/ Less(a, b) => a.key <= b.key
  OBVIOUS
<1>9. \A a, b \in IKey : a.key < b.key => Less(a, b)
  OBVIOUS
<1> QED BY <1>2, <1>3, <1>4, <1>5, <1>6, <1>7, <1>8, <1>9

\* InternalKeyComparator orders any set of internal keys.
LEMMA EntriesOrdered ==
  ASSUME NEW S \in SUBSET IKey
  PROVE  Orders({p \in S \X S : Less(p[1], p[2])}, S)
<1> DEFINE R == {p \in S \X S : Less(p[1], p[2])}
<1>1. \A x, y \in S : <<x, y>> \in R <=> Less(x, y)
  OBVIOUS
<1> HIDE DEF R
<1>2. Orders(R, S)
  BY <1>1, KeyOrder DEF Orders
<1> QED BY <1>2 DEF R

\* The first of a finite set in order.
LEMMA FirstInOrder ==
  ASSUME NEW S, IsFiniteSet(S), S # {}, NEW R, Orders(R, S)
  PROVE  \E x \in S : \A y \in S : x = y \/ <<x, y>> \in R
<1>1. Cardinality(S) \in Nat /\ Cardinality(S) # 0
  BY FS_CardinalityType, FS_EmptySet
<1>2. PICK x \in S : Cardinality(Predecessors(S, R, x)) = 0
  <2>1. 1 \in 1 .. Cardinality(S)
    BY <1>1
  <2>2. \E x \in S : Cardinality(Predecessors(S, R, x)) = 1 - 1
    BY ONLY <2>1, IsFiniteSet(S), Orders(R, S), PlacesExist
  <2> QED BY <2>2
<1>3. Predecessors(S, R, x) = {}
  <2>1. IsFiniteSet(Predecessors(S, R, x))
    BY FS_Subset DEF Predecessors
  <2> QED BY <1>2, <2>1, FS_EmptySet
<1>4. \A y \in S : x = y \/ <<x, y>> \in R
  BY <1>3 DEF Predecessors, Orders
<1> QED BY <1>4

\* A finite set of keys has a first and a last one.
LEMMA FirstAndLast ==
  ASSUME NEW S \in SUBSET IKey, IsFiniteSet(S), S # {}
  PROVE  /\ First(S) \in S /\ \A o \in S : LessEq(First(S), o)
         /\ Last(S) \in S /\ \A o \in S : LessEq(o, Last(S))
<1> DEFINE R == {p \in S \X S : Less(p[1], p[2])}
           Q == {p \in S \X S : Less(p[2], p[1])}
<1>1. \A x, y \in S : (<<x, y>> \in R <=> Less(x, y)) /\ (<<x, y>> \in Q <=> Less(y, x))
  OBVIOUS
<1> HIDE DEF R, Q
<1>2. Orders(R, S) /\ Orders(Q, S)
  BY <1>1, KeyOrder DEF Orders
<1>3. \E x \in S : \A y \in S : LessEq(x, y)
  <2>1. \E x \in S : \A y \in S : x = y \/ <<x, y>> \in R
    BY ONLY <1>2, IsFiniteSet(S), S # {}, FirstInOrder
  <2> QED BY <1>1, <2>1 DEF LessEq
<1>4. \E x \in S : \A y \in S : LessEq(y, x)
  <2>1. \E x \in S : \A y \in S : x = y \/ <<x, y>> \in Q
    BY ONLY <1>2, IsFiniteSet(S), S # {}, FirstInOrder
  <2> QED BY <1>1, <2>1 DEF LessEq
<1> QED BY <1>3, <1>4 DEF First, Last

-----------------------------------------------------------------------------
(* Files                                                                   *)

\* The entries of a database, and the keys looked up.
Entry == [key : Keys, seq : 1 .. MaxWrites, type : {kTypeDeletion, kTypeValue}]

\* An entry is an internal key below every key made for seeking.
LEMMA EntriesAreKeys ==
  /\ Entry \subseteq IKey
  /\ \A e \in Entry : e.key \in Keys /\ e.key \in Int /\ e.seq \in Nat /\ e.seq < kMaxSequenceNumber
<1>1. kMaxSequenceNumber \in Nat
  BY SMT DEF kMaxSequenceNumber
<1>2. Keys \subseteq Int /\ MaxWrites \in Nat /\ MaxWrites < kMaxSequenceNumber
  BY LSMAssumption
<1>3. \A n \in 1 .. MaxWrites : n \in Nat /\ n < kMaxSequenceNumber
  BY <1>1, <1>2
<1>4. 1 .. MaxWrites \subseteq Nat
  BY <1>2
<1>5. Entry \subseteq IKey
  BY <1>2, <1>4 DEF Entry, IKey
<1>6. \A e \in Entry : e.key \in Keys /\ e.seq \in 1 .. MaxWrites
  BY DEF Entry
<1> QED BY <1>2, <1>3, <1>5, <1>6

FileRecord == [number : Nat, smallest : Entry, largest : Entry, entries : SUBSET Entry]

\* A table file: its first and last entry are its bounds.
File == {f \in FileRecord :
           /\ IsFiniteSet(f.entries) /\ f.smallest \in f.entries /\ f.largest \in f.entries
           /\ \A e \in f.entries : LessEq(f.smallest, e) /\ LessEq(e, f.largest)}

\* What is in a file lies between its smallest and its largest key.
LEMMA FileBounds ==
  ASSUME NEW f \in File
  PROVE  /\ f \in FileRecord /\ f.number \in Nat
         /\ f.smallest \in Entry /\ f.largest \in Entry /\ f.entries \in SUBSET Entry
         /\ f.smallest.key \in Keys /\ f.largest.key \in Keys
         /\ f.smallest.key \in Int /\ f.largest.key \in Int
         /\ f.smallest.key <= f.largest.key
         /\ LessEq(f.smallest, f.largest)
         /\ \A e \in f.entries : e \in Entry /\ LessEq(f.smallest, e) /\ LessEq(e, f.largest)
<1>1. /\ f \in FileRecord /\ f.number \in Nat
      /\ f.smallest \in Entry /\ f.largest \in Entry /\ f.entries \in SUBSET Entry
  BY DEF File, FileRecord
<1>2. LessEq(f.smallest, f.largest)
  BY DEF File
<1>3. /\ f.smallest.key \in Keys /\ f.largest.key \in Keys
      /\ f.smallest.key \in Int /\ f.largest.key \in Int /\ f.smallest.key <= f.largest.key
  BY <1>1, <1>2, KeyOrder, EntriesAreKeys
<1> QED BY <1>1, <1>2, <1>3 DEF File

\* A table built from some entries is a file with their bounds.
LEMMA NewFile ==
  ASSUME NEW S \in SUBSET Entry, IsFiniteSet(S), S # {}, NEW n \in Nat
  PROVE  /\ FileMetaData(n, S) \in File
         /\ FileMetaData(n, S).number = n /\ FileMetaData(n, S).entries = S
<1>1. /\ First(S) \in S /\ \A o \in S : LessEq(First(S), o)
      /\ Last(S) \in S /\ \A o \in S : LessEq(o, Last(S))
  BY EntriesAreKeys, FirstAndLast
<1> QED BY <1>1 DEF FileMetaData, File, FileRecord

\* A list of files has finitely many.
LEMMA FilesAreFinite ==
  ASSUME NEW T, NEW list \in Seq(T)
  PROVE  /\ IsFiniteSet(FilesOf(list)) /\ FilesOf(list) \subseteq T
         /\ DOMAIN list = 1 .. Len(list) /\ Len(list) \in Nat
         /\ list = <<>> <=> FilesOf(list) = {}
<1>1. DOMAIN list = 1 .. Len(list) /\ Len(list) \in Nat
  OBVIOUS
<1>2. IsFiniteSet(1 .. Len(list))
  BY <1>1, FS_Interval
<1>3. list \in Surjection(1 .. Len(list), FilesOf(list))
  BY <1>1 DEF Surjection, FilesOf
<1>4. IsFiniteSet(FilesOf(list))
  BY <1>2, <1>3, FS_Surjection
<1>5. list = <<>> <=> FilesOf(list) = {}
  <2>1. ASSUME list # <<>> PROVE FilesOf(list) # {}
    <3>1. 1 \in DOMAIN list
      BY <1>1, <2>1
    <3> QED BY <3>1 DEF FilesOf
  <2>2. FilesOf(<<>>) = {}
    BY DEF FilesOf
  <2> QED BY <2>1, <2>2
<1>6. FilesOf(list) \subseteq T
  BY DEF FilesOf
<1> QED BY <1>1, <1>4, <1>5, <1>6

-----------------------------------------------------------------------------
(* Lists of files                                                          *)

\* A set of integers that has a lower bound has a least element.
LEMMA LeastIndex ==
  ASSUME NEW b \in Int, NEW n \in Int, NEW I \in SUBSET (b .. n), I # {}
  PROVE  \E i \in I : \A j \in I : i <= j
<1> SUFFICES ASSUME \A i \in I : \E j \in I : j < i
             PROVE  FALSE
  OBVIOUS
<1> DEFINE J == {k \in Int : \A j \in I : j >= k}
<1>1. b \in J
  OBVIOUS
<1>2. \A k \in b + 1 .. n + 1 : k - 1 \in J => k \in J
  <2> SUFFICES ASSUME NEW k \in b + 1 .. n + 1, k - 1 \in J, NEW j \in I
               PROVE  j >= k
    OBVIOUS
  <2>1. PICK m \in I : m < j
    OBVIOUS
  <2>2. m >= k - 1
    OBVIOUS
  <2> QED BY <2>1, <2>2
<1> HIDE DEF J
<1> DEFINE m == n + 1
<1>3. b \in Int /\ m \in Int /\ b \in J /\ \A k \in b + 1 .. m : k - 1 \in J => k \in J
  BY <1>1, <1>2
<1>4. PICK i \in I : TRUE
  OBVIOUS
<1>5. m \in J
  <2>1. m \in b .. m
    BY <1>4
  <2> HIDE DEF m
  <2>2. b .. m \subseteq J
    BY ONLY <1>3, AllIndices
  <2> QED BY <2>1, <2>2
<1> QED BY <1>4, <1>5 DEF J

\* A binary search for the end b of the indices in Q, which are the first ones.
LEMMA BinarySearch ==
  ASSUME NEW n \in Nat \ {0}, NEW b \in 1 .. n, NEW Q,
         \A i \in 1 .. n - 1 : i \in Q <=> i < b
  PROVE  LET D == (1 .. n) \X (1 .. n)
             Is(f) == f = [lr \in D |->
                             IF lr[1] >= lr[2] THEN lr[2]
                             ELSE IF (lr[1] + lr[2]) \div 2 \in Q
                                  THEN f[<<(lr[1] + lr[2]) \div 2 + 1, lr[2]>>]
                                  ELSE f[<<lr[1], (lr[1] + lr[2]) \div 2>>]]
         IN /\ \E f : Is(f)
            /\ \A f : Is(f) => f[<<1, n>>] = b
<1> DEFINE D == (1 .. n) \X (1 .. n)
           Mid(l, r) == (l + r) \div 2
           Is(f) == f = [lr \in D |->
                           IF lr[1] >= lr[2] THEN lr[2]
                           ELSE IF (lr[1] + lr[2]) \div 2 \in Q
                                THEN f[<<(lr[1] + lr[2]) \div 2 + 1, lr[2]>>]
                                ELSE f[<<lr[1], (lr[1] + lr[2]) \div 2>>]]
           g == [lr \in D |-> IF lr[1] >= lr[2] THEN lr[2]
                              ELSE IF b <= lr[1] THEN lr[1]
                              ELSE IF b >= lr[2] THEN lr[2] ELSE b]
<1>1. \A l, r \in 1 .. n : l < r => /\ Mid(l, r) \in 1 .. n - 1 /\ l <= Mid(l, r) /\ Mid(l, r) < r
                                    /\ Mid(l, r) + 1 \in 1 .. n /\ Mid(l, r) \in 1 .. n
  OBVIOUS
<1>2. ASSUME NEW f, Is(f), NEW l \in 1 .. n, NEW r \in 1 .. n
      PROVE  f[<<l, r>>] = IF l >= r THEN r
                           ELSE IF Mid(l, r) \in Q THEN f[<<Mid(l, r) + 1, r>>]
                           ELSE f[<<l, Mid(l, r)>>]
  <2>1. <<l, r>> \in D
    OBVIOUS
  <2> QED BY <1>2, <2>1
<1>3. \A l, r \in 1 .. n :
        g[<<l, r>>] = IF l >= r THEN r ELSE IF b <= l THEN l ELSE IF b >= r THEN r ELSE b
  OBVIOUS
<1>4. Is(g)
  <2>1. ASSUME NEW l \in 1 .. n, NEW r \in 1 .. n
        PROVE  g[<<l, r>>] = IF l >= r THEN r
                             ELSE IF Mid(l, r) \in Q THEN g[<<Mid(l, r) + 1, r>>]
                             ELSE g[<<l, Mid(l, r)>>]
    <3>1. CASE l >= r
      BY <1>3, <3>1
    <3>2. CASE l < r /\ Mid(l, r) \in Q
      <4>1. Mid(l, r) < b
        BY <1>1, <3>2
      <4> HIDE DEF g
      <4>2. /\ g[<<l, r>>] = IF l >= r THEN r ELSE IF b <= l THEN l ELSE IF b >= r THEN r ELSE b
            /\ g[<<Mid(l, r) + 1, r>>] = IF Mid(l, r) + 1 >= r THEN r ELSE IF b <= Mid(l, r) + 1 THEN Mid(l, r) + 1
                                         ELSE IF b >= r THEN r ELSE b
        BY <1>1, <1>3, <3>2
      <4> QED BY <1>1, <3>2, <4>1, <4>2
    <3>3. CASE l < r /\ Mid(l, r) \notin Q
      <4>1. b <= Mid(l, r)
        BY <1>1, <3>3
      <4> HIDE DEF g
      <4>2. /\ g[<<l, r>>] = IF l >= r THEN r ELSE IF b <= l THEN l ELSE IF b >= r THEN r ELSE b
            /\ g[<<l, Mid(l, r)>>] = IF l >= Mid(l, r) THEN Mid(l, r) ELSE IF b <= l THEN l
                                     ELSE IF b >= Mid(l, r) THEN Mid(l, r) ELSE b
        BY <1>1, <1>3, <3>3
      <4> QED BY <1>1, <3>3, <4>1, <4>2
    <3> QED BY <3>1, <3>2, <3>3
  <2>2. g = [lr \in D |-> g[lr]]
    OBVIOUS
  <2> HIDE DEF g
  <2>3. \A lr \in D : g[lr] = IF lr[1] >= lr[2] THEN lr[2]
                              ELSE IF (lr[1] + lr[2]) \div 2 \in Q
                                   THEN g[<<(lr[1] + lr[2]) \div 2 + 1, lr[2]>>]
                                   ELSE g[<<lr[1], (lr[1] + lr[2]) \div 2>>]
    <3> SUFFICES ASSUME NEW l \in 1 .. n, NEW r \in 1 .. n
                 PROVE  g[<<l, r>>] = IF l >= r THEN r
                                      ELSE IF (l + r) \div 2 \in Q
                                           THEN g[<<(l + r) \div 2 + 1, r>>]
                                           ELSE g[<<l, (l + r) \div 2>>]
      OBVIOUS
    <3> QED BY <2>1
  <2> QED BY <2>2, <2>3, Zenon
<1>5. ASSUME NEW f, Is(f) PROVE f[<<1, n>>] = b
  <2> HIDE DEF Is
  <2> DEFINE I == {d \in Int : \A l, r \in 1 .. n : r - l <= d /\ l <= b /\ b <= r => f[<<l, r>>] = b}
  <2>a. \A l, r \in 1 .. n : f[<<l, r>>] = IF l >= r THEN r
                                          ELSE IF Mid(l, r) \in Q THEN f[<<Mid(l, r) + 1, r>>]
                                          ELSE f[<<l, Mid(l, r)>>]
    BY <1>2, <1>5, Zenon
  <2>1. 0 \in I
    <3> SUFFICES ASSUME NEW l \in 1 .. n, NEW r \in 1 .. n, r - l <= 0, l <= b, b <= r
                 PROVE  f[<<l, r>>] = b
      OBVIOUS
    <3>1. l >= r /\ r = b
      OBVIOUS
    <3>2. f[<<l, r>>] = r
      BY <2>a, <3>1, Zenon
    <3> QED BY <3>1, <3>2
  <2>2. ASSUME NEW d \in 0 + 1 .. n, d - 1 \in I PROVE d \in I
    <3> SUFFICES ASSUME NEW l \in 1 .. n, NEW r \in 1 .. n, r - l <= d, l <= b, b <= r
                 PROVE  f[<<l, r>>] = b
      OBVIOUS
    <3>1. CASE l >= r
      <4>1. r = b
        BY <3>1
      <4>2. f[<<l, r>>] = r
        BY <2>a, <3>1, Zenon
      <4> QED BY <4>1, <4>2
    <3>2. CASE l < r /\ Mid(l, r) \in Q
      <4>1. Mid(l, r) + 1 <= b
        BY <1>1, <3>2
      <4>2. f[<<Mid(l, r) + 1, r>>] = b
        BY <1>1, <2>2, <3>2, <4>1
      <4>3. ~(l >= r)
        BY <3>2
      <4> HIDE DEF Mid
      <4> QED BY <2>a, <3>2, <4>2, <4>3, Zenon
    <3>3. CASE l < r /\ Mid(l, r) \notin Q
      <4>1. b <= Mid(l, r)
        BY <1>1, <3>3
      <4>2. f[<<l, Mid(l, r)>>] = b
        BY <1>1, <2>2, <3>3, <4>1
      <4>3. ~(l >= r)
        BY <3>3
      <4> HIDE DEF Mid
      <4> QED BY <2>a, <3>3, <4>2, <4>3, Zenon
    <3> QED BY <3>1, <3>2, <3>3
  <2> HIDE DEF I
  <2>3. 0 .. n \subseteq I
    BY <2>1, <2>2, AllIndices
  <2>4. n \in I
    BY <2>3
  <2> QED BY <2>4 DEF I
<1> QED BY <1>4, <1>5

\* Files of a level above 0: one begins where the ones before it have ended.
InOrder(files) ==
  \A i, j \in DOMAIN files : i < j => Less(files[i].largest, files[j].smallest)

\* FindFile finds the first file of a sorted level that ends at or after the key.
LEMMA FindsFile ==
  ASSUME NEW files \in Seq(File), InOrder(files), NEW key \in IKey
  PROVE  /\ FindFile(files, key) \in 1 .. Len(files) + 1
         /\ \A j \in DOMAIN files : Less(files[j].largest, key) <=> j < FindFile(files, key)
<1> DEFINE n == Len(files) + 1
           Q == {i \in DOMAIN files : Less(files[i].largest, key)}
           I == {i \in 1 .. n : i \notin Q}
           D == (1 .. n) \X (1 .. n)
           Is(f) == f = [lr \in D |->
                           IF lr[1] >= lr[2] THEN lr[2]
                           ELSE IF (lr[1] + lr[2]) \div 2 \in Q
                                THEN f[<<(lr[1] + lr[2]) \div 2 + 1, lr[2]>>]
                                ELSE f[<<lr[1], (lr[1] + lr[2]) \div 2>>]]
           Searches(f) ==
             f = [lr \in D |->
                    IF lr[1] >= lr[2] THEN lr[2]
                    ELSE IF Less(files[(lr[1] + lr[2]) \div 2].largest, key)
                         THEN f[<<(lr[1] + lr[2]) \div 2 + 1, lr[2]>>]
                         ELSE f[<<lr[1], (lr[1] + lr[2]) \div 2>>]]
<1>1. n \in Nat \ {0} /\ DOMAIN files = 1 .. n - 1 /\ n \in I /\ I \in SUBSET (1 .. n)
  OBVIOUS
<1>2. PICK b \in I : \A j \in I : b <= j
  <2>1. 1 \in Int /\ n \in Int /\ I \in SUBSET (1 .. n) /\ I # {}
    BY <1>1
  <2> HIDE DEF I, n
  <2> QED BY ONLY <2>1, LeastIndex
<1>3. b \in 1 .. n
  BY <1>1, <1>2
<1>4. ASSUME NEW i \in 1 .. n - 1 PROVE i \in Q <=> i < b
  <2>1. i < b => i \in Q
    BY <1>1, <1>2
  <2>2. ASSUME b < i PROVE i \notin Q
    <3>1. b \in DOMAIN files /\ i \in DOMAIN files /\ b \notin Q
      BY <1>1, <1>3, <2>2
    <3>2. files[b] \in File /\ files[i] \in File /\ Less(files[b].largest, files[i].smallest)
      BY <2>2, <3>1 DEF InOrder
    <3>3. Less(files[b].largest, files[i].largest)
      BY <3>2, FileBounds, KeyOrder, EntriesAreKeys
    <3>4. ~Less(files[b].largest, key)
      BY <3>1
    <3> QED BY <3>2, <3>3, <3>4, FileBounds, KeyOrder, EntriesAreKeys
  <2>3. b \notin Q
    BY <1>2
  <2> QED BY <1>3, <2>1, <2>2, <2>3
<1>5. (\E f : Is(f)) /\ \A f : Is(f) => f[<<1, n>>] = b
  <2> HIDE DEF Q, n
  <2> QED BY <1>1, <1>3, <1>4, BinarySearch
<1>6. \A f : Is(f) <=> Searches(f)
  <2>1. \A lr \in D : lr[1] < lr[2] =>
          ((lr[1] + lr[2]) \div 2 \in Q <=> Less(files[(lr[1] + lr[2]) \div 2].largest, key))
    <3> SUFFICES ASSUME NEW l \in 1 .. n, NEW r \in 1 .. n, l < r
                 PROVE  (l + r) \div 2 \in Q <=> Less(files[(l + r) \div 2].largest, key)
      OBVIOUS
    <3>1. (l + r) \div 2 \in 1 .. n - 1
      <4> HIDE DEF n
      <4> QED BY <1>1
    <3> QED BY <1>1, <3>1
  <2>2. \A lr \in D : lr[1] \in Int /\ lr[2] \in Int
    OBVIOUS
  <2> HIDE DEF D, Q
  <2>3. \A lr \in D : ~(lr[1] >= lr[2]) => lr[1] < lr[2]
    BY <2>2
  <2> QED BY <2>1, <2>3, Zenon
<1>7. FindFile(files, key) = (CHOOSE f : Searches(f))[<<1, n>>]
  BY DEF FindFile
<1> HIDE DEF Searches, Is
<1>8. FindFile(files, key) = b
  BY <1>5, <1>6, <1>7
<1> QED BY <1>1, <1>3, <1>4, <1>8

-----------------------------------------------------------------------------
(* Files that overlap a range of user keys                                 *)

\* AfterFile and BeforeFile together say whether a file meets a range.
LEMMA OverlapsIs ==
  ASSUME NEW f \in File, NEW a \in Keys, NEW z \in Keys
  PROVE  Overlaps(f, <<a, z>>) <=> a <= f.largest.key /\ f.smallest.key <= z
<1>1. a # NULL /\ z # NULL /\ a \in Int /\ z \in Int
  BY LSMAssumption
<1> QED BY <1>1, FileBounds DEF Overlaps, AfterFile, BeforeFile

\* SomeFileOverlapsRange: what it does not report does not overlap.
LEMMA NoOverlap ==
  ASSUME NEW v \in [Levels -> Seq(File)], NEW level \in Levels,
         level > 0 => InOrder(v[level]), NEW a \in Keys, NEW z \in Keys,
         ~OverlapInLevel(v, level, a, z)
  PROVE  \A f \in FilesOf(v[level]) : f.largest.key < a \/ z < f.smallest.key
<1> DEFINE files == v[level]
<1>1. files \in Seq(File) /\ a \in Int /\ z \in Int /\ a # NULL /\ z # NULL
  BY LSMAssumption
<1>2. CASE ~(level > 0)
  <2>1. \A f \in FilesOf(files) : ~Overlaps(f, <<a, z>>)
    BY <1>2 DEF OverlapInLevel, SomeFileOverlapsRange
  <2> QED BY <1>1, <2>1, OverlapsIs, FileBounds, FilesAreFinite
<1>3. CASE level > 0
  <2> DEFINE key == InternalKey(a, kMaxSequenceNumber, kValueTypeForSeek)
             i == FindFile(files, key)
  <2>1. kMaxSequenceNumber \in Nat
    BY SMT DEF kMaxSequenceNumber
  <2>2. key \in IKey /\ key.key = a /\ key.seq = kMaxSequenceNumber
    BY <1>1, <2>1 DEF InternalKey, IKey, kValueTypeForSeek
  <2>3. InOrder(files)
    BY <1>3
  <2>4. ~(i <= Len(files) /\ ~BeforeFile(z, files[i]))
    BY <1>1, <1>3 DEF OverlapInLevel, SomeFileOverlapsRange
  <2> HIDE DEF key, files
  <2>5. i \in 1 .. Len(files) + 1 /\ \A j \in DOMAIN files : Less(files[j].largest, key) <=> j < i
    BY <1>1, <2>2, <2>3, FindsFile
  <2>6. ASSUME NEW e \in Entry, Less(e, key) PROVE e.key < a
    <3>1. e.key \in Int /\ e.seq \in Nat /\ e.seq < kMaxSequenceNumber
      BY EntriesAreKeys
    <3> QED BY <1>1, <2>1, <2>2, <2>6, <3>1 DEF Less
  <2> HIDE DEF i
  <2>7. ASSUME NEW j \in DOMAIN files PROVE files[j].largest.key < a \/ z < files[j].smallest.key
    <3>0. files[j] \in File
      BY <1>1
    <3>1. CASE j < i
      BY <2>5, <2>6, <3>0, <3>1, FileBounds
    <3>2. CASE ~(j < i)
      <4>1. i \in DOMAIN files /\ i <= Len(files) /\ files[i] \in File /\ (i = j \/ i < j)
        BY <1>1, <2>5, <3>2
      <4>2. z < files[i].smallest.key
        BY <2>4, <4>1 DEF BeforeFile
      <4>3. i < j => Less(files[i].largest, files[j].smallest)
        BY <2>3, <4>1 DEF InOrder
      <4>4. files[i].smallest.key <= files[j].smallest.key
        BY <3>0, <4>1, <4>3, FileBounds, KeyOrder, EntriesAreKeys
      <4> QED BY <1>1, <3>0, <4>1, <4>2, <4>4, FileBounds
    <3> QED BY <3>1, <3>2
  <2> QED BY <2>7 DEF FilesOf, files
<1> QED BY <1>2, <1>3

\* The files of a level that meet a range, in the order of the level.
LEMMA OverlappingFiles ==
  ASSUME NEW files \in Seq(File), NEW r
  PROVE  /\ Overlapping(files, r) \in Seq(File)
         /\ FilesOf(Overlapping(files, r)) = {f \in FilesOf(files) : Overlaps(f, r)}
         /\ InOrder(files) => InOrder(Overlapping(files, r))
<1> DEFINE S == {i \in DOMAIN files : Overlaps(files[i], r)}
           places == Sorted(S, LAMBDA i, j : i < j)
           R == {p \in S \X S : p[1] < p[2]}
           list == Overlapping(files, r)
<1>1. IsFiniteSet(S) /\ S \subseteq Int
  <2>1. IsFiniteSet(1 .. Len(files)) /\ DOMAIN files = 1 .. Len(files)
    BY FS_Interval
  <2> QED BY <2>1, FS_Subset
<1>2. Enumerates(places, S, R)
  <2> HIDE DEF S
  <2> QED BY <1>1, SortedNumbers
<1>3. list = [n \in DOMAIN places |-> files[places[n]]]
  BY DEF Overlapping
<1> HIDE DEF S, places, R, list
<1>4. Cardinality(S) \in Nat
  BY <1>1, FS_CardinalityType
<1>5. /\ DOMAIN places = 1 .. Cardinality(S)
      /\ \A n \in DOMAIN places : places[n] \in S
      /\ \A i \in S : \E n \in DOMAIN places : places[n] = i
      /\ \A m, n \in DOMAIN places : m < n => places[m] < places[n]
  BY <1>2 DEF Enumerates, R
<1>6. S \subseteq DOMAIN files /\ \A i \in DOMAIN files : i \in S <=> Overlaps(files[i], r)
  BY DEF S
<1>7. list \in Seq(File) /\ DOMAIN list = DOMAIN places
  BY <1>3, <1>4, <1>5, <1>6
<1>8. FilesOf(list) = {f \in FilesOf(files) : Overlaps(f, r)}
  BY <1>3, <1>5, <1>6, <1>7 DEF FilesOf
<1>9. InOrder(files) => InOrder(list)
  BY <1>3, <1>5, <1>6, <1>7 DEF InOrder
<1> QED BY <1>7, <1>8, <1>9 DEF list

-----------------------------------------------------------------------------
(* Sizes and scores                                                        *)

\* TotalFileSize is a number.
LEMMA SizesAreNumbers ==
  ASSUME NEW list \in Seq(File)
  PROVE  TotalFileSize(list) \in Nat /\ (list = <<>> => TotalFileSize(list) = 0)
<1> DEFINE n == Len(list)
           G == [i \in 0 + 1 .. n |-> [x \in Nat |-> x + FileSize(list[i])]]
           Is(f) == f = [i \in 0 .. n |-> IF i = 0 THEN 0 ELSE f[i - 1] + FileSize(list[i])]
<1>1. n \in Nat /\ DOMAIN list = 1 .. n
  OBVIOUS
<1>2. \A i \in 1 .. n : FileSize(list[i]) \in Nat
  <2>1. \A f \in File : FileSize(f) \in Nat
    BY FS_CardinalityType DEF FileSize, File
  <2> QED BY <1>1, <2>1
<1>3. PICK f \in [0 .. n -> Nat] : f[0] = 0 /\ \A i \in 0 + 1 .. n : f[i] = G[i][f[i - 1]]
  <2>1. G \in [0 + 1 .. n -> [Nat -> Nat]]
    BY <1>2
  <2>2. 0 \in Int /\ n \in Int /\ 0 <= n /\ 0 \in Nat
    BY <1>1
  <2>3. Recursions(0, n, Nat, 0, G) # {}
    <3> HIDE DEF G, n
    <3> QED BY <2>1, <2>2, RecursionExists
  <2> HIDE DEF G, n
  <2> QED BY <2>3 DEF Recursions
<1>4. Is(f)
  <2>1. ASSUME NEW i \in 0 .. n PROVE f[i] = IF i = 0 THEN 0 ELSE f[i - 1] + FileSize(list[i])
    <3>1. CASE i = 0
      BY <1>3, <3>1
    <3>2. CASE i # 0
      <4>1. i \in 0 + 1 .. n /\ f[i - 1] \in Nat
        <5>1. i \in 0 + 1 .. n /\ i - 1 \in 0 .. n
          BY <1>1, <3>2
        <5> QED BY ONLY <1>3, <5>1
      <4> QED BY <1>3, <3>2, <4>1
    <3> QED BY <3>1, <3>2
  <2>2. f = [i \in 0 .. n |-> f[i]]
    BY <1>3
  <2> QED BY <2>1, <2>2, Zenon
<1>5. TotalFileSize(list) = (CHOOSE g : Is(g))[n]
  BY DEF TotalFileSize
<1> DEFINE g == CHOOSE g : Is(g)
<1>6. Is(g)
  <2> HIDE DEF Is
  <2> QED BY <1>4
<1>7. g[0] = 0 /\ \A i \in 1 .. n : g[i] = g[i - 1] + FileSize(list[i])
  <2>0. \A i \in 0 .. n : g[i] = IF i = 0 THEN 0 ELSE g[i - 1] + FileSize(list[i])
    <3> HIDE DEF g
    <3> QED BY <1>6
  <2> HIDE DEF g
  <2> QED BY <1>1, <2>0
<1> HIDE DEF Is, g
<1> DEFINE I == {i \in Int : g[i] \in Nat}
<1>8. 0 .. n \subseteq I
  <2>1. 0 \in Int /\ n \in Int /\ 0 \in I
    BY <1>1, <1>7
  <2>2. \A i \in 0 + 1 .. n : i - 1 \in I => i \in I
    BY <1>1, <1>2, <1>7
  <2> HIDE DEF I, n
  <2> QED BY ONLY <2>1, <2>2, AllIndices
<1>9. g[n] \in Nat
  <2>1. n \in 0 .. n
    BY <1>1
  <2> HIDE DEF n
  <2> QED BY <1>8, <2>1
<1>10. list = <<>> => n = 0
  OBVIOUS
<1>11. TotalFileSize(list) = g[n]
  BY <1>5 DEF g
<1> QED BY <1>7, <1>9, <1>10, <1>11

\* MaxBytesForLevel is a number above 0.
LEMMA LimitsArePositive == \A level \in Levels : MaxBytesForLevel[level] \in Nat \ {0}
<1> DEFINE T == Nat \ {0}
           n == kNumLevels - 1
           G == [i \in 0 + 1 .. n |-> [x \in T |-> IF i <= 1 THEN LevelBase ELSE LevelRatio * x]]
           Is(f) == f = [level \in Levels |->
                           IF level <= 1 THEN LevelBase ELSE LevelRatio * f[level - 1]]
<1>1. n \in Nat /\ Levels = 0 .. n /\ LevelBase \in T /\ LevelRatio \in T
  BY LevelsAssumption DEF Levels
<1>2. \A x \in T : LevelRatio * x \in T
  BY <1>1
<1>3. PICK f \in [0 .. n -> T] : f[0] = LevelBase /\ \A i \in 0 + 1 .. n : f[i] = G[i][f[i - 1]]
  <2>1. G \in [0 + 1 .. n -> [T -> T]]
    <3> HIDE DEF T, n
    <3> QED BY <1>1, <1>2
  <2>2. 0 \in Int /\ n \in Int /\ 0 <= n /\ LevelBase \in T
    BY <1>1
  <2> HIDE DEF G, n, T
  <2>3. Recursions(0, n, T, LevelBase, G) # {}
    BY <2>1, <2>2, RecursionExists
  <2> QED BY <2>3 DEF Recursions
<1>4. Is(f)
  <2> HIDE DEF T
  <2>1. ASSUME NEW i \in 0 .. n PROVE f[i] = IF i <= 1 THEN LevelBase ELSE LevelRatio * f[i - 1]
    <3> HIDE DEF n
    <3>1. CASE i = 0
      BY <1>3, <3>1
    <3>2. CASE i # 0
      <4>1. i \in 0 + 1 .. n /\ f[i - 1] \in T
        BY <1>1, <1>3, <3>2
      <4> QED BY <1>3, <3>2, <4>1
    <3> QED BY <3>1, <3>2
  <2>2. f = [i \in 0 .. n |-> f[i]]
    BY <1>3
  <2> QED BY <1>1, <2>1, <2>2, Zenon
<1>5. MaxBytesForLevel = CHOOSE g : Is(g)
  BY DEF MaxBytesForLevel
<1> DEFINE g == MaxBytesForLevel
<1>6. Is(g)
  <2> HIDE DEF Is
  <2> QED BY <1>4, <1>5
<1> HIDE DEF g
<1>7. \A i \in 0 .. n : g[i] = IF i <= 1 THEN LevelBase ELSE LevelRatio * g[i - 1]
  <2> HIDE DEF n
  <2> QED BY <1>1, <1>6
<1> HIDE DEF Is
<1> DEFINE I == {i \in Int : g[i] \in T}
<1>8. 0 .. n \subseteq I
  <2> HIDE DEF T
  <2>1. 0 \in Int /\ n \in Int /\ 0 \in I
    BY <1>1, <1>7
  <2>2. \A i \in 0 + 1 .. n : i - 1 \in I => i \in I
    BY <1>1, <1>2, <1>7
  <2> HIDE DEF I, n
  <2> QED BY ONLY <2>1, <2>2, AllIndices
<1> QED BY <1>1, <1>8 DEF g

\* Fractions with positive denominators are compared by products.
LEMMA ProductsCompare ==
  ASSUME NEW a \in Nat, NEW b \in Nat, NEW c \in Nat,
         NEW p \in Nat \ {0}, NEW q \in Nat \ {0}, NEW r \in Nat \ {0},
         a * q >= b * p, b * r >= c * q
  PROVE  a * r >= c * p
<1>1. (a * q) * r >= (b * p) * r
  <2>1. \A x, y, z \in Nat : x >= y => x * z >= y * z
    OBVIOUS
  <2>2. a * q \in Nat /\ b * p \in Nat /\ r \in Nat
    OBVIOUS
  <2> DEFINE x == a * q
             y == b * p
  <2> HIDE DEF x, y
  <2>3. x * r >= y * r
    BY <2>1, <2>2 DEF x, y
  <2> QED BY <2>3 DEF x, y
<1>2. (b * r) * p >= (c * q) * p
  <2>1. \A x, y, z \in Nat : x >= y => x * z >= y * z
    OBVIOUS
  <2> DEFINE x == b * r
             y == c * q
  <2>2. x \in Nat /\ y \in Nat /\ p \in Nat
    OBVIOUS
  <2>3. x >= y
    OBVIOUS
  <2> HIDE DEF x, y
  <2>4. x * p >= y * p
    BY <2>1, <2>2, <2>3
  <2> QED BY <2>4 DEF x, y
<1>3. (a * r) * q >= (c * p) * q
  BY <1>1, <1>2
<1>4. \A x, y \in Nat : \A z \in Nat \ {0} : x * z >= y * z => x >= y
  <2> SUFFICES ASSUME NEW x \in Nat, NEW y \in Nat, NEW z \in Nat \ {0}, x < y
               PROVE  x * z < y * z
    OBVIOUS
  <2>1. PICK d \in Nat \ {0} : y = x + d
    <3>1. y - x \in Nat \ {0} /\ y = x + (y - x)
      OBVIOUS
    <3> QED BY <3>1
  <2>2. y * z = x * z + d * z
    BY <2>1
  <2>3. d * z > 0 /\ d * z \in Nat /\ x * z \in Nat
    OBVIOUS
  <2> QED BY <2>2, <2>3
<1>5. a * r \in Nat /\ c * p \in Nat
  OBVIOUS
<1> QED BY <1>3, <1>4, <1>5

\* Finalize: a level with the best score exists; if it is due it has a file.
LEMMA FinalizePicks ==
  ASSUME NEW v \in [Levels -> Seq(File)]
  PROVE  /\ Finalize(v) \in 0 .. kNumLevels - 2
         /\ SizeCompaction(v) => v[Finalize(v)] # <<>>
<1> DEFINE N == 0 .. kNumLevels - 2
           s(l) == Score(v, l)
           AtLeast(a, b) == Score(v, a)[1] * Score(v, b)[2] >= Score(v, b)[1] * Score(v, a)[2]
           best == {l \in N : \A o \in N : AtLeast(l, o)}
<1>1. kNumLevels - 2 \in Nat /\ N \subseteq Levels /\ 0 \in N /\ kL0_CompactionTrigger \in Nat \ {0}
  BY LevelsAssumption DEF Levels
<1>2. \A l \in N : s(l)[1] \in Nat /\ s(l)[2] \in Nat \ {0} /\ (v[l] = <<>> => s(l)[1] = 0)
  <2> SUFFICES ASSUME NEW l \in N
               PROVE  s(l)[1] \in Nat /\ s(l)[2] \in Nat \ {0} /\ (v[l] = <<>> => s(l)[1] = 0)
    OBVIOUS
  <2>1. v[l] \in Seq(File) /\ l \in Levels
    BY <1>1
  <2>2. TotalFileSize(v[l]) \in Nat /\ (v[l] = <<>> => TotalFileSize(v[l]) = 0)
    BY <2>1, SizesAreNumbers
  <2>3. MaxBytesForLevel[l] \in Nat \ {0}
    BY <2>1, LimitsArePositive
  <2>4. CASE l = 0
    <3>1. s(l) = <<Len(v[l]), kL0_CompactionTrigger>>
      BY <2>4 DEF Score
    <3> QED BY <1>1, <2>1, <3>1
  <2>5. CASE l # 0
    <3>1. s(l) = <<TotalFileSize(v[l]), MaxBytesForLevel[l]>>
      BY <2>5 DEF Score
    <3> QED BY <2>2, <2>3, <3>1
  <2> QED BY <2>4, <2>5
<1> HIDE DEF N, s
<1>3. \A a, b, c \in N : AtLeast(a, b) /\ AtLeast(b, c) => AtLeast(a, c)
  <2> SUFFICES ASSUME NEW a \in N, NEW b \in N, NEW c \in N, AtLeast(a, b), AtLeast(b, c)
               PROVE  AtLeast(a, c)
    OBVIOUS
  <2> DEFINE a1 == Score(v, a)[1]  a2 == Score(v, a)[2]
             b1 == Score(v, b)[1]  b2 == Score(v, b)[2]
             c1 == Score(v, c)[1]  c2 == Score(v, c)[2]
  <2>1. /\ a1 \in Nat /\ b1 \in Nat /\ c1 \in Nat
        /\ a2 \in Nat \ {0} /\ b2 \in Nat \ {0} /\ c2 \in Nat \ {0}
    BY <1>2 DEF s
  <2>2. a1 * b2 >= b1 * a2 /\ b1 * c2 >= c1 * b2
    OBVIOUS
  <2>3. a1 * c2 >= c1 * a2
    <3> HIDE DEF a1, a2, b1, b2, c1, c2
    <3> QED BY <2>1, <2>2, ProductsCompare
  <2> QED BY <2>3
<1>4. \A a, b \in N : AtLeast(a, b) \/ AtLeast(b, a)
  <2> SUFFICES ASSUME NEW a \in N, NEW b \in N PROVE AtLeast(a, b) \/ AtLeast(b, a)
    OBVIOUS
  <2> DEFINE x == Score(v, a)[1] * Score(v, b)[2]
             y == Score(v, b)[1] * Score(v, a)[2]
  <2>1. x \in Nat /\ y \in Nat
    BY <1>2 DEF s
  <2> HIDE DEF x, y
  <2>2. x >= y \/ y >= x
    BY <2>1
  <2> QED BY <2>2 DEF x, y
<1> HIDE DEF AtLeast
<1> DEFINE I == {n \in Int : \E l \in N : \A o \in 0 .. n : AtLeast(l, o)}
<1>5. best # {}
  <2>1. 0 \in I
    <3>1. AtLeast(0, 0)
      BY <1>1, <1>4
    <3> QED BY <1>1, <3>1
  <2>2. \A n \in 0 + 1 .. kNumLevels - 2 : n - 1 \in I => n \in I
    <3> SUFFICES ASSUME NEW n \in 0 + 1 .. kNumLevels - 2, n - 1 \in I PROVE n \in I
      OBVIOUS
    <3>0. kNumLevels - 2 \in Int
      BY <1>1
    <3>1. PICK l \in N : \A o \in 0 .. n - 1 : AtLeast(l, o)
      OBVIOUS
    <3>2. n \in N /\ (0 .. n) \subseteq N
      BY <1>1 DEF N
    <3>3. CASE AtLeast(l, n)
      <4>1. \A o \in 0 .. n : o = n \/ o \in 0 .. n - 1
        BY <3>0
      <4> QED BY <3>0, <3>1, <3>3, <4>1
    <3>4. CASE AtLeast(n, l)
      <4>1. \A o \in 0 .. n : o = n \/ o \in 0 .. n - 1
        BY <3>0
      <4>2. \A o \in 0 .. n : AtLeast(n, o)
        BY <1>3, <1>4, <3>1, <3>2, <3>4, <4>1
      <4> QED BY <3>0, <3>2, <4>2
    <3> QED BY <1>4, <3>2, <3>3, <3>4
  <2> HIDE DEF I
  <2> DEFINE m == kNumLevels - 2
  <2>3. 0 \in Int /\ m \in Int /\ m \in 0 .. m /\ 0 \in I /\ \A n \in 0 + 1 .. m : n - 1 \in I => n \in I
    BY <1>1, <2>1, <2>2
  <2>4. m \in I
    <3> HIDE DEF m
    <3>1. 0 .. m \subseteq I
      BY ONLY <2>3, AllIndices
    <3> QED BY <2>3, <3>1
  <2> QED BY <2>4 DEF I, N
<1>6. PICK l \in best : \A o \in best : l <= o
  <2>1. 0 \in Int /\ kNumLevels - 2 \in Int /\ best \in SUBSET (0 .. kNumLevels - 2)
    BY <1>1 DEF N
  <2> DEFINE m == kNumLevels - 2
  <2> HIDE DEF best, m
  <2> QED BY <1>5, <2>1, LeastIndex DEF m
<1>7. Finalize(v) = CHOOSE l1 \in best : \A o \in best : l1 <= o
  BY DEF Finalize, AtLeast, N
<1>8. Finalize(v) \in N
  <2> HIDE DEF best
  <2>1. Finalize(v) \in best
    BY <1>6, <1>7
  <2> QED BY <2>1 DEF best
<1>9. SizeCompaction(v) => v[Finalize(v)] # <<>>
  BY <1>2, <1>8 DEF SizeCompaction, s
<1> QED BY <1>8, <1>9 DEF N

-----------------------------------------------------------------------------
(* Ranges without a gap                                                    *)

Hits(F, a, z) == {f \in F : a <= f.largest.key /\ f.smallest.key <= z}
Within(F, a, z) == \A f \in F : a <= f.smallest.key /\ f.largest.key <= z

\* The files in F lie between lo and hi and leave no user key there uncovered.
Solid(F, lo, hi) ==
  /\ lo <= hi
  /\ Within(F, lo, hi)
  /\ \A k \in lo .. hi : \E f \in F : f.smallest.key <= k /\ k <= f.largest.key

\* The bounds of finitely many files are finitely many.
LEMMA BoundsAreFinite ==
  ASSUME NEW F, IsFiniteSet(F)
  PROVE  /\ IsFiniteSet({f.smallest : f \in F}) /\ IsFiniteSet({f.largest : f \in F})
         /\ IsFiniteSet({f.smallest.key : f \in F}) /\ IsFiniteSet({f.largest.key : f \in F})
<1>1. ASSUME NEW g, DOMAIN g = F, g = [f \in F |-> g[f]] PROVE IsFiniteSet({g[f] : f \in F})
  <2>1. g \in Surjection(F, {g[f] : f \in F})
    BY <1>1 DEF Surjection
  <2> QED BY <2>1, FS_Surjection
<1> DEFINE g1 == [f \in F |-> f.smallest]
           g2 == [f \in F |-> f.largest]
           g3 == [f \in F |-> f.smallest.key]
           g4 == [f \in F |-> f.largest.key]
<1>2. IsFiniteSet({g1[f] : f \in F}) /\ IsFiniteSet({g2[f] : f \in F})
  BY <1>1
<1>3. IsFiniteSet({g3[f] : f \in F}) /\ IsFiniteSet({g4[f] : f \in F})
  BY <1>1
<1>4. /\ {g1[f] : f \in F} = {f.smallest : f \in F} /\ {g2[f] : f \in F} = {f.largest : f \in F}
      /\ {g3[f] : f \in F} = {f.smallest.key : f \in F} /\ {g4[f] : f \in F} = {f.largest.key : f \in F}
  OBVIOUS
<1> QED BY <1>2, <1>3, <1>4

\* A finite set of integers has a least and a greatest element.
LEMMA LeastAndGreatest ==
  ASSUME NEW S \in SUBSET Int, IsFiniteSet(S), S # {}
  PROVE  (\E k \in S : \A o \in S : k <= o) /\ (\E k \in S : \A o \in S : k >= o)
<1> DEFINE R == {p \in S \X S : p[1] < p[2]}
           Q == {p \in S \X S : p[2] < p[1]}
<1>1. \A x, y \in S : (<<x, y>> \in R <=> x < y) /\ (<<x, y>> \in Q <=> y < x)
  OBVIOUS
<1> HIDE DEF R, Q
<1>2. Orders(R, S) /\ Orders(Q, S)
  BY <1>1 DEF Orders
<1>3. \E x \in S : \A y \in S : x = y \/ <<x, y>> \in R
  BY ONLY <1>2, IsFiniteSet(S), S # {}, FirstInOrder
<1>4. \E x \in S : \A y \in S : x = y \/ <<x, y>> \in Q
  BY ONLY <1>2, IsFiniteSet(S), S # {}, FirstInOrder
<1>5. \E k \in S : \A o \in S : k <= o
  <2>1. PICK x \in S : \A y \in S : x = y \/ <<x, y>> \in R
    BY <1>3
  <2>2. \A y \in S : x = y \/ x < y
    BY <1>1, <2>1
  <2> QED BY <2>2
<1>6. \E k \in S : \A o \in S : k >= o
  <2>1. PICK x \in S : \A y \in S : x = y \/ <<x, y>> \in Q
    BY <1>4
  <2>2. \A y \in S : x = y \/ y < x
    BY <1>1, <2>1
  <2> QED BY <2>2
<1> QED BY <1>5, <1>6

Lowest(F, a) == {a} \cup {f.smallest.key : f \in F}
Highest(F, z) == {z} \cup {f.largest.key : f \in F}

\* A set of files and a range have a least and a greatest key.
LEMMA Hull ==
  ASSUME NEW F \in SUBSET File, IsFiniteSet(F), NEW a \in Keys, NEW z \in Keys
  PROVE  /\ Lowest(F, a) \subseteq Keys /\ Highest(F, z) \subseteq Keys /\ Keys \subseteq Int
         /\ \E k \in Lowest(F, a) : \A o \in Lowest(F, a) : k <= o
         /\ \E k \in Highest(F, z) : \A o \in Highest(F, z) : k >= o
<1>1. Keys \subseteq Int
  BY LSMAssumption
<1>2. IsFiniteSet({f.smallest.key : f \in F}) /\ IsFiniteSet({f.largest.key : f \in F})
  BY BoundsAreFinite
<1>3. IsFiniteSet(Lowest(F, a)) /\ IsFiniteSet(Highest(F, z))
  BY <1>2, FS_Singleton, FS_Union DEF Lowest, Highest
<1>4. /\ Lowest(F, a) \subseteq Keys /\ Highest(F, z) \subseteq Keys
      /\ Lowest(F, a) # {} /\ Highest(F, z) # {}
  BY FileBounds DEF Lowest, Highest
<1> QED BY <1>1, <1>3, <1>4, LeastAndGreatest

\* lo .. hi is the range a .. z grown by the files in X, which all touch it.
Grown(X, a, z, lo, hi) ==
  /\ \A f \in X : a <= f.largest.key /\ f.smallest.key <= z
  /\ lo \in Lowest(X, a) /\ \A o \in Lowest(X, a) : lo <= o
  /\ hi \in Highest(X, z) /\ \A o \in Highest(X, z) : hi >= o

\* A range without gaps stays so when files that meet it are added.
LEMMA HitsAreSolid ==
  ASSUME NEW G \in SUBSET File, NEW X \in SUBSET File, NEW a \in Keys, NEW z \in Keys,
         Solid(G, a, z), NEW lo, NEW hi, Grown(X, a, z, lo, hi)
  PROVE  Solid(G \cup X, lo, hi) /\ lo <= a /\ z <= hi /\ lo \in Keys /\ hi \in Keys
<1>1. a \in Int /\ z \in Int /\ a <= z /\ lo \in Int /\ hi \in Int /\ lo \in Keys /\ hi \in Keys
  BY LSMAssumption, FileBounds DEF Lowest, Highest, Solid, Grown
<1>2. lo <= a /\ z <= hi
  BY DEF Lowest, Highest, Grown
<1>3. Within(X, lo, hi)
  BY DEF Within, Lowest, Highest, Grown
<1>4. Within(G, lo, hi)
  BY <1>1, <1>2, FileBounds DEF Within, Solid
<1>5. ASSUME NEW k \in lo .. hi PROVE \E f \in G \cup X : f.smallest.key <= k /\ k <= f.largest.key
  <2>1. CASE k < a
    <3>1. PICK f \in X : lo = f.smallest.key
      BY <1>1, <2>1 DEF Lowest, Grown
    <3> QED BY <1>1, <2>1, <3>1, FileBounds DEF Grown
  <2>2. CASE k > z
    <3>1. PICK f \in X : hi = f.largest.key
      BY <1>1, <2>2 DEF Highest, Grown
    <3> QED BY <1>1, <2>2, <3>1, FileBounds DEF Grown
  <2>3. CASE a <= k /\ k <= z
    <3>1. k \in a .. z
      BY <1>1, <2>3
    <3> QED BY <3>1 DEF Solid
  <2> QED BY <1>1, <2>1, <2>2, <2>3
<1> QED BY <1>1, <1>2, <1>3, <1>4, <1>5 DEF Solid, Within

\* The same for some range that holds the added files.
LEMMA HitsStaySolid ==
  ASSUME NEW G \in SUBSET File, NEW X \in SUBSET File, IsFiniteSet(X), NEW a \in Keys, NEW z \in Keys,
         Solid(G, a, z), \A f \in X : a <= f.largest.key /\ f.smallest.key <= z
  PROVE  \E lo, hi \in Keys : Solid(G \cup X, lo, hi) /\ lo <= a /\ z <= hi
<1>1. PICK lo \in Lowest(X, a) : \A o \in Lowest(X, a) : lo <= o
  BY Hull
<1>2. PICK hi \in Highest(X, z) : \A o \in Highest(X, z) : hi >= o
  BY Hull
<1>3. Solid(G \cup X, lo, hi) /\ lo <= a /\ z <= hi /\ lo \in Keys /\ hi \in Keys
  <2>1. Grown(X, a, z, lo, hi)
    BY <1>1, <1>2 DEF Grown
  <2> QED BY <2>1, HitsAreSolid
<1> QED BY <1>3

\* What avoids files without a gap is on one side of all of them.
LEMMA OnOneSide ==
  ASSUME NEW F \in SUBSET File, NEW lo \in Keys, NEW hi \in Keys, Solid(F, lo, hi),
         NEW a \in Keys, NEW z \in Keys, a <= z,
         \A f \in F : f.largest.key < a \/ z < f.smallest.key
  PROVE  (\A f \in F : f.largest.key < a) \/ (\A f \in F : z < f.smallest.key)
<1>1. lo \in Int /\ hi \in Int /\ a \in Int /\ z \in Int
  BY LSMAssumption
<1>2. CASE hi < a
  BY <1>1, <1>2, FileBounds DEF Solid, Within
<1>3. CASE z < lo
  BY <1>1, <1>3, FileBounds DEF Solid, Within
<1>4. CASE a <= hi /\ lo <= z
  <2> DEFINE k == IF a >= lo THEN a ELSE lo
  <2>1. k \in lo .. hi /\ a <= k /\ k <= z
    BY <1>1, <1>4 DEF Solid
  <2>2. PICK f \in F : f.smallest.key <= k /\ k <= f.largest.key
    BY <2>1 DEF Solid
  <2> QED BY <1>1, <2>1, <2>2, FileBounds
<1> QED BY <1>1, <1>2, <1>3, <1>4

\* GetRange finds the bounds of the files it is given.
LEMMA RangeOf ==
  ASSUME NEW list \in Seq(File), list # <<>>
  PROVE  /\ GetRange(list).smallest \in Entry /\ GetRange(list).largest \in Entry
         /\ GetRange(list).smallest.key \in Keys /\ GetRange(list).largest.key \in Keys
         /\ GetRange(list).smallest.key <= GetRange(list).largest.key
         /\ \E f \in FilesOf(list) : f.smallest = GetRange(list).smallest
         /\ \E f \in FilesOf(list) : f.largest = GetRange(list).largest
         /\ Within(FilesOf(list), GetRange(list).smallest.key, GetRange(list).largest.key)
<1> DEFINE F == FilesOf(list)
           S == {f.smallest : f \in F}
           L == {f.largest : f \in F}
<1>1. F \subseteq File /\ IsFiniteSet(F) /\ F # {}
  BY FilesAreFinite
<1> HIDE DEF F
<1>2. S \in SUBSET IKey /\ L \in SUBSET IKey /\ S \subseteq Entry /\ L \subseteq Entry /\ S # {} /\ L # {}
  BY <1>1, FileBounds, EntriesAreKeys
<1>3. IsFiniteSet(S) /\ IsFiniteSet(L)
  BY <1>1, BoundsAreFinite
<1>4. /\ First(S) \in S /\ \A o \in S : LessEq(First(S), o)
      /\ Last(L) \in L /\ \A o \in L : LessEq(o, Last(L))
  <2> HIDE DEF S, L
  <2> QED BY <1>2, <1>3, FirstAndLast
<1>5. GetRange(list).smallest = First(S) /\ GetRange(list).largest = Last(L)
  BY DEF GetRange, F
<1> DEFINE s == GetRange(list).smallest
           l == GetRange(list).largest
<1>6. s \in Entry /\ l \in Entry /\ s \in IKey /\ l \in IKey /\ s.key \in Keys /\ l.key \in Keys
  BY <1>2, <1>4, <1>5, EntriesAreKeys
<1>7. \A f \in F : LessEq(s, f.smallest) /\ LessEq(f.largest, l)
  BY <1>4, <1>5
<1>8. (\E f \in F : f.smallest = s) /\ (\E f \in F : f.largest = l)
  BY <1>4, <1>5
<1> HIDE DEF s, l
<1>9. \A f \in F : s.key <= f.smallest.key /\ f.largest.key <= l.key
  BY <1>1, <1>6, <1>7, FileBounds, KeyOrder, EntriesAreKeys
<1>10. s.key <= l.key
  <2>1. PICK f \in F : TRUE
    BY <1>1
  <2>2. s.key \in Int /\ l.key \in Int
    BY <1>6, EntriesAreKeys
  <2> QED BY <1>1, <1>9, <2>1, <2>2, FileBounds
<1> QED BY <1>6, <1>8, <1>9, <1>10 DEF s, l, F, Within

\* The range of files without a gap is what they cover.
LEMMA SolidRange ==
  ASSUME NEW list \in Seq(File), list # <<>>, NEW lo \in Keys, NEW hi \in Keys,
         Solid(FilesOf(list), lo, hi)
  PROVE  GetRange(list).smallest.key = lo /\ GetRange(list).largest.key = hi
<1>1. lo \in Int /\ hi \in Int /\ lo <= hi /\ lo \in lo .. hi /\ hi \in lo .. hi
  BY LSMAssumption DEF Solid
<1>2. PICK f \in FilesOf(list) : f.smallest.key <= lo /\ lo <= f.largest.key
  BY <1>1 DEF Solid
<1>3. PICK g \in FilesOf(list) : g.smallest.key <= hi /\ hi <= g.largest.key
  BY <1>1 DEF Solid
<1>4. \A h \in FilesOf(list) : h \in File
  BY FilesAreFinite
<1>5. PICK h1 \in FilesOf(list) : h1.smallest = GetRange(list).smallest
  BY RangeOf
<1>6. PICK h2 \in FilesOf(list) : h2.largest = GetRange(list).largest
  BY RangeOf
<1>7. /\ GetRange(list).smallest.key <= f.smallest.key /\ g.largest.key <= GetRange(list).largest.key
      /\ lo <= h1.smallest.key /\ h2.largest.key <= hi
  BY <1>2, <1>3, <1>5, <1>6, RangeOf DEF Solid, Within
<1> DEFINE s == GetRange(list).smallest.key
           l == GetRange(list).largest.key
<1>8. s \in Int /\ l \in Int /\ s <= lo /\ hi <= l /\ lo <= s /\ l <= hi
  BY <1>1, <1>2, <1>3, <1>4, <1>5, <1>6, <1>7, FileBounds
<1> HIDE DEF s, l
<1>9. s = lo /\ l = hi
  BY <1>1, <1>8
<1> QED BY <1>9 DEF s, l

-----------------------------------------------------------------------------
(* The files a compaction takes                                            *)

Pairs == {p \in Keys \X Keys : p[1] <= p[2]}

\* Above level 0 GetOverlappingInputs takes the files that overlap the range.
LEMMA InputsAbove0 ==
  ASSUME NEW v \in [Levels -> Seq(File)], NEW level \in Levels, level # 0,
         NEW a \in Keys, NEW z \in Keys
  PROVE  /\ GetOverlappingInputs(v, level, a, z) \in Seq(File)
         /\ FilesOf(GetOverlappingInputs(v, level, a, z)) = Hits(FilesOf(v[level]), a, z)
         /\ InOrder(v[level]) => InOrder(GetOverlappingInputs(v, level, a, z))
<1>1. GetOverlappingInputs(v, level, a, z) = Overlapping(v[level], <<a, z>>)
  BY DEF GetOverlappingInputs
<1>2. v[level] \in Seq(File) /\ FilesOf(v[level]) \subseteq File
  BY FilesAreFinite
<1>3. {f \in FilesOf(v[level]) : Overlaps(f, <<a, z>>)} = Hits(FilesOf(v[level]), a, z)
  BY <1>2, OverlapsIs DEF Hits
<1> QED BY <1>1, <1>2, <1>3, OverlappingFiles

\* One more pass over level 0 with the range p.
Wider(F, p) ==
  << CHOOSE k \in Lowest(Hits(F, p[1], p[2]), p[1]) : \A o \in Lowest(Hits(F, p[1], p[2]), p[1]) : k <= o,
     CHOOSE k \in Highest(Hits(F, p[1], p[2]), p[2]) : \A o \in Highest(Hits(F, p[1], p[2]), p[2]) : k >= o >>

\* One round of GetOverlappingInputs in level 0: the range grows to the files
\* that meet it, and stays when it holds them already.
LEMMA WiderRange ==
  ASSUME NEW F \in SUBSET File, IsFiniteSet(F), NEW p \in Pairs
  PROVE  /\ Wider(F, p) \in Pairs
         /\ Grown(Hits(F, p[1], p[2]), p[1], p[2], Wider(F, p)[1], Wider(F, p)[2])
         /\ Wider(F, p)[1] <= p[1] /\ p[2] <= Wider(F, p)[2]
         /\ Within(Hits(F, p[1], p[2]), Wider(F, p)[1], Wider(F, p)[2])
         /\ Hits(F, p[1], p[2]) \subseteq Hits(F, Wider(F, p)[1], Wider(F, p)[2])
         /\ Within(Hits(F, p[1], p[2]), p[1], p[2]) => Wider(F, p) = p
<1> DEFINE X == Hits(F, p[1], p[2])
           lo == Wider(F, p)[1]
           hi == Wider(F, p)[2]
<1>1. X \in SUBSET File /\ IsFiniteSet(X) /\ p[1] \in Keys /\ p[2] \in Keys /\ p[1] <= p[2]
  BY FS_Subset DEF Hits, Pairs
<1>2. /\ lo = CHOOSE k \in Lowest(X, p[1]) : \A o \in Lowest(X, p[1]) : k <= o
      /\ hi = CHOOSE k \in Highest(X, p[2]) : \A o \in Highest(X, p[2]) : k >= o
      /\ Wider(F, p) = <<lo, hi>>
  BY DEF Wider
<1>3. \A f \in X : p[1] <= f.largest.key /\ f.smallest.key <= p[2]
  BY DEF Hits
<1> HIDE DEF X, lo, hi
<1>4. /\ (\E k \in Lowest(X, p[1]) : \A o \in Lowest(X, p[1]) : k <= o)
      /\ (\E k \in Highest(X, p[2]) : \A o \in Highest(X, p[2]) : k >= o)
      /\ Lowest(X, p[1]) \subseteq Keys /\ Highest(X, p[2]) \subseteq Keys /\ Keys \subseteq Int
  BY <1>1, Hull
<1>5. /\ lo \in Lowest(X, p[1]) /\ \A o \in Lowest(X, p[1]) : lo <= o
      /\ hi \in Highest(X, p[2]) /\ \A o \in Highest(X, p[2]) : hi >= o
  BY <1>2, <1>4
<1>6. Grown(X, p[1], p[2], lo, hi)
  BY <1>3, <1>5 DEF Grown
<1>7. lo <= p[1] /\ p[2] <= hi /\ Within(X, lo, hi) /\ lo \in Keys /\ hi \in Keys
  BY <1>4, <1>5 DEF Lowest, Highest, Within
<1>8. p[1] \in Int /\ p[2] \in Int /\ lo \in Int /\ hi \in Int
  BY <1>1, <1>4, <1>7
<1>9. Wider(F, p) \in Pairs
  <2>1. lo <= hi
    BY <1>1, <1>7, <1>8
  <2>2. \A x, y \in Keys : x <= y => <<x, y>> \in Pairs
    BY DEF Pairs
  <2> QED BY <1>2, <1>7, <2>1, <2>2
<1>10. X \subseteq Hits(F, lo, hi)
  <2> SUFFICES ASSUME NEW f \in X PROVE f \in Hits(F, lo, hi)
    OBVIOUS
  <2>1. f \in F /\ f \in File
    BY <1>1 DEF X, Hits
  <2>2. lo <= f.smallest.key /\ f.largest.key <= hi
    BY <1>7 DEF Within
  <2> QED BY <1>8, <2>1, <2>2, FileBounds DEF Hits
<1>11. Within(X, p[1], p[2]) => Wider(F, p) = p
  <2> SUFFICES ASSUME Within(X, p[1], p[2]) PROVE lo = p[1] /\ hi = p[2]
    BY <1>2 DEF Pairs
  <2>1. lo >= p[1]
    BY <1>5, <1>8 DEF Within, Lowest
  <2>2. hi <= p[2]
    BY <1>5, <1>8 DEF Within, Highest
  <2> QED BY <1>7, <1>8, <2>1, <2>2
<1> QED BY <1>6, <1>7, <1>9, <1>10, <1>11 DEF X, lo, hi

\* In level 0 the range ends up holding every file it touches, and is without
\* a gap if it began so.
Level0Inputs(list, F, a, z, p) ==
  /\ list \in Seq(File) /\ FilesOf(list) = Hits(F, p[1], p[2])
  /\ p[1] <= a /\ z <= p[2]
  /\ Hits(F, a, z) \subseteq Hits(F, p[1], p[2])
  /\ \A G \in SUBSET File : Solid(G, a, z) =>
       \E H \in SUBSET (G \cup Hits(F, p[1], p[2])) : G \subseteq H /\ Solid(H, p[1], p[2])
  /\ Hits(F, a, z) # {} => Within(Hits(F, p[1], p[2]), p[1], p[2])

\* GetOverlappingInputs in level 0 comes to an end: it finds the files that meet
\* a range that holds them all.
LEMMA InputsOfLevel0 ==
  ASSUME NEW v \in [Levels -> Seq(File)], NEW a \in Keys, NEW z \in Keys, a <= z
  PROVE  \E p \in Pairs : Level0Inputs(GetOverlappingInputs(v, 0, a, z), FilesOf(v[0]), a, z, p)
<1> DEFINE files == v[0]
           F == FilesOf(files)
           N == Len(files)
           p0 == <<a, z>>
           W(p) == Widened(files, p)
           G == [i \in 0 + 1 .. N |-> [p \in Pairs |-> Wider(F, p)]]
           Is(w) == w = [n \in 0 .. N |-> IF n = 0 THEN p0 ELSE W(w[n - 1])]
           inputs == GetOverlappingInputs(v, 0, a, z)
<1>1. 0 \in Levels
  BY LevelsAssumption DEF Levels
<1>2. files \in Seq(File) /\ F \in SUBSET File /\ IsFiniteSet(F) /\ N \in Nat
  BY <1>1, FilesAreFinite
<1>3. a # NULL /\ z # NULL /\ p0 \in Pairs
  BY LSMAssumption DEF Pairs
<1>4. inputs = Overlapping(files, (CHOOSE w : Is(w))[N])
  BY DEF GetOverlappingInputs
<1>5. ASSUME NEW p \in Pairs
      PROVE  W(p) = Wider(F, p) /\ {f \in F : Overlaps(f, p)} = Hits(F, p[1], p[2])
  <2>1. p = <<p[1], p[2]>> /\ p[1] \in Keys /\ p[2] \in Keys
    BY DEF Pairs
  <2>2. {f \in F : Overlaps(f, p)} = Hits(F, p[1], p[2])
    <3> HIDE DEF F
    <3>1. \A f \in F : Overlaps(f, p) <=> p[1] <= f.largest.key /\ f.smallest.key <= p[2]
      BY <1>2, <2>1, OverlapsIs
    <3> QED BY <3>1 DEF Hits
  <2>3. p[1] # NULL /\ p[2] # NULL
    BY <2>1, LSMAssumption
  <2>4. W(p) = << CHOOSE k \in Lowest({f \in F : Overlaps(f, p)}, p[1]) :
                    \A o \in Lowest({f \in F : Overlaps(f, p)}, p[1]) : k <= o,
                  CHOOSE k \in Highest({f \in F : Overlaps(f, p)}, p[2]) :
                    \A o \in Highest({f \in F : Overlaps(f, p)}, p[2]) : k >= o >>
    BY <2>3 DEF Widened, Lowest, Highest
  <2>5. W(p) = Wider(F, p)
    BY <2>2, <2>4 DEF Wider
  <2> QED BY <2>2, <2>5
<1> HIDE DEF F, W, inputs, p0
<1>6. \E w : Is(w)
  <2>1. \A p \in Pairs : Wider(F, p) \in Pairs
    BY <1>2, WiderRange
  <2>2. G \in [0 + 1 .. N -> [Pairs -> Pairs]]
    BY <2>1
  <2>3. Recursions(0, N, Pairs, p0, G) # {}
    <3>1. 0 \in Int /\ N \in Int /\ 0 <= N /\ p0 \in Pairs
      BY <1>2, <1>3
    <3> HIDE DEF G, N
    <3> QED BY ONLY <2>2, <3>1, RecursionExists
  <2> HIDE DEF N
  <2>4. PICK w \in [0 .. N -> Pairs] : w[0] = p0 /\ \A i \in 0 + 1 .. N : w[i] = G[i][w[i - 1]]
    <3> HIDE DEF G
    <3> QED BY <2>3 DEF Recursions
  <2>5. ASSUME NEW n \in 0 .. N PROVE w[n] = IF n = 0 THEN p0 ELSE W(w[n - 1])
    <3>1. CASE n = 0
      BY <2>4, <3>1
    <3>2. CASE n # 0
      <4>1. n \in 0 + 1 .. N /\ w[n - 1] \in Pairs
        BY <1>2, <2>4, <3>2
      <4>2. w[n] = Wider(F, w[n - 1])
        BY <2>4, <4>1
      <4> QED BY <1>5, <3>2, <4>1, <4>2
    <3> QED BY <3>1, <3>2
  <2>6. w = [n \in 0 .. N |-> w[n]]
    BY <2>4
  <2>7. Is(w)
    BY <2>5, <2>6, Zenon
  <2> QED BY <2>7
<1> DEFINE w == CHOOSE w : Is(w)
<1>7. Is(w)
  <2> HIDE DEF Is
  <2> QED BY <1>6
<1>8. \A n \in 0 .. N : w[n] = IF n = 0 THEN p0 ELSE W(w[n - 1])
  <2> HIDE DEF w, N
  <2> QED BY <1>7
<1>9. inputs = Overlapping(files, w[N])
  BY <1>4
<1> HIDE DEF Is, w, N
<1> DEFINE X(n) == Hits(F, w[n][1], w[n][2])
           Covered(n) == \A A \in SUBSET File : Solid(A, a, z) =>
                           \E H \in SUBSET (A \cup X(n)) : A \subseteq H /\ Solid(H, w[n][1], w[n][2])
           Closed(n) == Within(X(n), w[n][1], w[n][2])
           I == {n \in Int : /\ w[n] \in Pairs /\ w[n][1] <= a /\ z <= w[n][2]
                             /\ X(0) \subseteq X(n)
                             /\ Covered(n)
                             /\ X(0) # {} => Closed(n) \/ Cardinality(X(n)) >= n + 1}
<1>10. w[0] = p0 /\ \A n \in 1 .. N : w[n] = W(w[n - 1])
  BY <1>2, <1>8
<1>11. 0 \in I
  <2>1. w[0] \in Pairs /\ w[0][1] = a /\ w[0][2] = z /\ a \in Int /\ z \in Int
    BY <1>3, <1>10, LSMAssumption DEF p0
  <2>2. Covered(0)
    <3> SUFFICES ASSUME NEW A \in SUBSET File, Solid(A, a, z)
                 PROVE  \E H \in SUBSET (A \cup X(0)) : A \subseteq H /\ Solid(H, w[0][1], w[0][2])
      OBVIOUS
    <3> QED BY <2>1
  <2>3. X(0) # {} => Cardinality(X(0)) >= 0 + 1
    <3>1. IsFiniteSet(X(0))
      BY <1>2, FS_Subset DEF Hits
    <3> HIDE DEF X
    <3>2. Cardinality(X(0)) \in Nat /\ (Cardinality(X(0)) = 0 <=> X(0) = {})
      BY <3>1, FS_CardinalityType, FS_EmptySet
    <3> QED BY <3>2
  <2> HIDE DEF X, Covered, Closed
  <2> QED BY <2>1, <2>2, <2>3
<1>12. ASSUME NEW n \in 0 + 1 .. N, n - 1 \in I PROVE n \in I
  <2> DEFINE m == n - 1
             p == w[m]
             q == w[n]
  <2>1. m \in Int /\ n \in Int /\ n = m + 1 /\ p \in Pairs /\ q = Wider(F, p)
    <3>1. n \in 1 .. N /\ n \in Int
      BY <1>2
    <3> QED BY <1>2, <1>5, <1>10, <1>12, <3>1
  <2>2. /\ q \in Pairs /\ Grown(X(m), p[1], p[2], q[1], q[2])
        /\ q[1] <= p[1] /\ p[2] <= q[2] /\ Within(X(m), q[1], q[2])
        /\ X(m) \subseteq X(n) /\ (Closed(m) => q = p)
    BY <1>2, <2>1, WiderRange
  <2>3. /\ p[1] <= a /\ z <= p[2] /\ X(0) \subseteq X(m) /\ Covered(m)
        /\ X(0) # {} => Closed(m) \/ Cardinality(X(m)) >= m + 1
    BY <1>12
  <2>4. p[1] \in Int /\ p[2] \in Int /\ q[1] \in Int /\ q[2] \in Int /\ a \in Int /\ z \in Int
        /\ p[1] \in Keys /\ p[2] \in Keys
    BY <2>1, <2>2, LSMAssumption DEF Pairs
  <2>5. X(m) \in SUBSET File /\ X(n) \in SUBSET File /\ IsFiniteSet(X(m)) /\ IsFiniteSet(X(n)) /\ X(n) \subseteq F
    BY <1>2, FS_Subset DEF Hits
  <2>6. Covered(n)
    <3> SUFFICES ASSUME NEW A \in SUBSET File, Solid(A, a, z)
                 PROVE  \E H \in SUBSET (A \cup X(n)) : A \subseteq H /\ Solid(H, q[1], q[2])
      OBVIOUS
    <3>1. PICK H \in SUBSET (A \cup X(m)) : A \subseteq H /\ Solid(H, p[1], p[2])
      BY <2>3
    <3> HIDE DEF X, p, q
    <3>2. Solid(H \cup X(m), q[1], q[2])
      BY <2>2, <2>4, <2>5, <3>1, HitsAreSolid
    <3> QED BY <2>2, <3>1, <3>2
  <2>7. ASSUME X(0) # {} PROVE Closed(n) \/ Cardinality(X(n)) >= n + 1
    <3>1. CASE Closed(m)
      <4>1. q = p
        BY <2>2, <3>1
      <4> QED BY <3>1, <4>1
    <3>2. CASE X(n) = X(m)
      BY <2>2, <3>2
    <3>3. CASE Cardinality(X(m)) >= m + 1 /\ X(n) # X(m)
      <4> HIDE DEF X
      <4>1. Cardinality(X(m)) \in Nat /\ Cardinality(X(n)) \in Nat
        BY <2>5, FS_CardinalityType
      <4>2. Cardinality(X(m)) <= Cardinality(X(n)) /\ Cardinality(X(m)) # Cardinality(X(n))
        BY <2>2, <2>5, <3>3, FS_Subset
      <4> HIDE DEF m
      <4> QED BY <2>1, <3>3, <4>1, <4>2
    <3> QED BY <2>3, <2>7, <3>1, <3>2, <3>3
  <2>8. q[1] <= a /\ z <= q[2] /\ X(0) \subseteq X(n)
    BY <2>2, <2>3, <2>4
  <2> HIDE DEF X, Covered, Closed
  <2> QED BY <2>1, <2>2, <2>6, <2>7, <2>8
<1>13. N \in I
  <2>1. 0 \in Int /\ N \in Int /\ N \in 0 .. N
    BY <1>2
  <2> HIDE DEF I
  <2>2. 0 .. N \subseteq I
    BY <1>11, <1>12, <2>1, AllIndices
  <2> QED BY <2>1, <2>2
<1>14. X(0) # {} => Closed(N)
  <2>1. X(N) \subseteq F /\ Cardinality(F) <= N /\ IsFiniteSet(F)
    <3>1. IsFiniteSet(1 .. N) /\ Cardinality(1 .. N) = N
      <4>1. N \in Nat
        BY <1>2
      <4> HIDE DEF N
      <4> QED BY ONLY <4>1, FS_Interval
    <3>2. files \in Surjection(1 .. N, F)
      BY <1>2 DEF Surjection, FilesOf, F, N
    <3>3. Cardinality(F) <= N
      BY <3>1, <3>2, FS_Surjection
    <3> QED BY <1>2, <3>3 DEF Hits
  <2>2. Cardinality(X(N)) <= Cardinality(F) /\ Cardinality(X(N)) \in Nat /\ Cardinality(F) \in Nat
    <3> HIDE DEF X
    <3> QED BY <2>1, FS_Subset, FS_CardinalityType
  <2>3. ~(Cardinality(X(N)) >= N + 1)
    <3> HIDE DEF X
    <3> QED BY <1>2, <2>1, <2>2
  <2> HIDE DEF X, Covered, Closed
  <2> QED BY <1>13, <2>3
<1>15. w[N] \in Pairs /\ w[N][1] <= a /\ z <= w[N][2] /\ X(0) \subseteq X(N) /\ Covered(N)
  <2> HIDE DEF X, Covered, Closed
  <2> QED BY <1>13
<1>16. inputs \in Seq(File) /\ FilesOf(inputs) = Hits(F, w[N][1], w[N][2])
  BY <1>2, <1>5, <1>9, <1>15, OverlappingFiles DEF F
<1>17. X(0) = Hits(F, a, z)
  BY <1>10 DEF p0
<1> QED BY <1>14, <1>15, <1>16, <1>17 DEF F, inputs, Level0Inputs

-----------------------------------------------------------------------------
(* The inputs of a compaction                                              *)

Gapless(F) == \E lo, hi \in Keys : Solid(F, lo, hi)

\* What the inputs of the level itself are; in level 0 every file that touches
\* one of them is among them.
Chosen(v, level, list) ==
  /\ list \in Seq(File) /\ list # <<>>
  /\ FilesOf(list) \subseteq FilesOf(v[level])
  /\ level = 0 => \E p \in Pairs : /\ FilesOf(list) = Hits(FilesOf(v[0]), p[1], p[2])
                                   /\ Within(FilesOf(list), p[1], p[2])

\* The inputs of the next level are its files that meet the range of the first.
LEMMA ParentsOf ==
  ASSUME NEW v \in [Levels -> Seq(File)], NEW level \in 0 .. kNumLevels - 2,
         NEW list \in Seq(File), list # <<>>
  PROVE  /\ ParentInputs(v, level, list) \in Seq(File)
         /\ FilesOf(ParentInputs(v, level, list))
              = Hits(FilesOf(v[level + 1]), GetRange(list).smallest.key, GetRange(list).largest.key)
<1> DEFINE r == GetRange(list)
<1>1. ParentInputs(v, level, list) = GetOverlappingInputs(v, level + 1, r.smallest.key, r.largest.key)
  BY DEF ParentInputs, With
<1>2. r.smallest.key \in Keys /\ r.largest.key \in Keys
  BY RangeOf
<1>3. level + 1 \in Levels /\ level + 1 # 0
  BY LevelsAssumption DEF Levels
<1> HIDE DEF r
<1>4. /\ GetOverlappingInputs(v, level + 1, r.smallest.key, r.largest.key) \in Seq(File)
      /\ FilesOf(GetOverlappingInputs(v, level + 1, r.smallest.key, r.largest.key))
           = Hits(FilesOf(v[level + 1]), r.smallest.key, r.largest.key)
  BY <1>2, <1>3, InputsAbove0
<1> QED BY <1>1, <1>4 DEF r

\* The files of a level that overlap a range without a gap.
LEMMA ChosenOver ==
  ASSUME NEW v \in [Levels -> Seq(File)], NEW level \in 0 .. kNumLevels - 2,
         NEW a \in Keys, NEW z \in Keys, NEW G \in SUBSET File, Solid(G, a, z),
         Hits(FilesOf(v[level]), a, z) # {}
  PROVE  /\ Chosen(v, level, GetOverlappingInputs(v, level, a, z))
         /\ Hits(FilesOf(v[level]), a, z) \subseteq FilesOf(GetOverlappingInputs(v, level, a, z))
         /\ \E lo, hi \in Keys : /\ Solid(G \cup FilesOf(GetOverlappingInputs(v, level, a, z)), lo, hi)
                                 /\ lo <= a /\ z <= hi
<1> DEFINE list == GetOverlappingInputs(v, level, a, z)
           F == FilesOf(v[level])
<1>1. level \in Levels /\ a \in Int /\ z \in Int /\ a <= z
  BY LevelsAssumption, LSMAssumption DEF Levels, Solid
<1>2. F \in SUBSET File /\ IsFiniteSet(F)
  BY <1>1, FilesAreFinite
<1>3. CASE level # 0
  <2>1. list \in Seq(File) /\ FilesOf(list) = Hits(F, a, z)
    BY <1>1, <1>3, InputsAbove0
  <2> HIDE DEF list, F
  <2>2. FilesOf(list) \in SUBSET File /\ IsFiniteSet(FilesOf(list)) /\ FilesOf(list) \subseteq F
    BY <1>2, <2>1, FS_Subset DEF Hits
  <2>3. list # <<>>
    BY <2>1, FilesAreFinite DEF F
  <2>4. Chosen(v, level, list)
    BY <1>3, <2>1, <2>2, <2>3 DEF Chosen, F
  <2>5. \A f \in FilesOf(list) : a <= f.largest.key /\ f.smallest.key <= z
    BY <2>1 DEF Hits
  <2>6. \E lo, hi \in Keys : Solid(G \cup FilesOf(list), lo, hi) /\ lo <= a /\ z <= hi
    BY <2>2, <2>5, HitsStaySolid
  <2> QED BY <2>1, <2>4, <2>6 DEF list, F
<1>4. CASE level = 0
  <2>1. PICK p \in Pairs :
          /\ list \in Seq(File) /\ FilesOf(list) = Hits(F, p[1], p[2])
          /\ p[1] <= a /\ z <= p[2] /\ Hits(F, a, z) \subseteq FilesOf(list)
          /\ \E H \in SUBSET (G \cup FilesOf(list)) : G \subseteq H /\ Solid(H, p[1], p[2])
          /\ Within(FilesOf(list), p[1], p[2])
    <3>1. PICK p \in Pairs : Level0Inputs(GetOverlappingInputs(v, 0, a, z), FilesOf(v[0]), a, z, p)
      <4>1. v \in [Levels -> Seq(File)] /\ a \in Keys /\ z \in Keys /\ a <= z
        BY <1>1
      <4> QED BY ONLY <4>1, InputsOfLevel0
    <3> QED BY <1>4, <3>1 DEF Level0Inputs
  <2>2. PICK H \in SUBSET (G \cup FilesOf(list)) : G \subseteq H /\ Solid(H, p[1], p[2])
    BY <2>1
  <2> HIDE DEF list, F
  <2>3. Solid(G \cup FilesOf(list), p[1], p[2])
    <3>1. Within(G \cup FilesOf(list), p[1], p[2])
      BY <2>1, <2>2 DEF Solid, Within
    <3> QED BY <2>2, <3>1 DEF Solid
  <2>4. FilesOf(list) \subseteq F /\ FilesOf(list) # {}
    BY <2>1 DEF Hits, F
  <2>5. list # <<>>
    BY <2>1, <2>4, FilesAreFinite
  <2>6. Chosen(v, level, list)
    BY <1>4, <2>1, <2>4, <2>5 DEF Chosen, F
  <2>7. p[1] \in Keys /\ p[2] \in Keys
    BY DEF Pairs
  <2> QED BY <2>1, <2>3, <2>6, <2>7 DEF list, F
<1> QED BY <1>3, <1>4

\* Both inputs of a compaction together.
LEMMA FilesOfBoth ==
  ASSUME NEW l1 \in Seq(File), NEW l2 \in Seq(File)
  PROVE  /\ l1 \o l2 \in Seq(File) /\ FilesOf(l1 \o l2) = FilesOf(l1) \cup FilesOf(l2)
         /\ l1 # <<>> => l1 \o l2 # <<>>
<1> DEFINE s == l1 \o l2
<1>1. s \in Seq(File) /\ Len(s) = Len(l1) + Len(l2) /\ DOMAIN s = 1 .. Len(l1) + Len(l2)
  OBVIOUS
<1>2. \A i \in 1 .. Len(l1) : s[i] = l1[i]
  OBVIOUS
<1>3. \A i \in 1 .. Len(l2) : s[Len(l1) + i] = l2[i] /\ Len(l1) + i \in DOMAIN s
  OBVIOUS
<1>4. \A i \in DOMAIN s : i \in 1 .. Len(l1) \/ (i - Len(l1) \in 1 .. Len(l2) /\ s[i] = l2[i - Len(l1)])
  OBVIOUS
<1>5. DOMAIN l1 = 1 .. Len(l1) /\ DOMAIN l2 = 1 .. Len(l2) /\ 1 .. Len(l1) \subseteq DOMAIN s
  OBVIOUS
<1>6. l1 # <<>> => s # <<>>
  OBVIOUS
<1> HIDE DEF s
<1>7. \A f : f \in FilesOf(s) <=> f \in FilesOf(l1) \/ f \in FilesOf(l2)
  <2>1. ASSUME NEW i \in DOMAIN s PROVE s[i] \in FilesOf(l1) \cup FilesOf(l2)
    BY <1>2, <1>4, <1>5 DEF FilesOf
  <2>2. ASSUME NEW i \in DOMAIN l1 PROVE l1[i] \in FilesOf(s)
    BY <1>2, <1>5 DEF FilesOf
  <2>3. ASSUME NEW i \in DOMAIN l2 PROVE l2[i] \in FilesOf(s)
    <3>1. l2[i] = s[Len(l1) + i] /\ Len(l1) + i \in DOMAIN s
      BY <1>3, <1>5
    <3> QED BY <3>1 DEF FilesOf
  <2> QED BY <2>1, <2>2, <2>3 DEF FilesOf
<1> QED BY <1>1, <1>6, <1>7 DEF s

\* SetupOtherInputs may take more files of the level, and stays without gaps.
LEMMA Expansion ==
  ASSUME NEW v \in [Levels -> Seq(File)], NEW level \in 0 .. kNumLevels - 2,
         NEW inputs0, Chosen(v, level, inputs0), NEW inputs1 \in Seq(File),
         Gapless(FilesOf(inputs0) \cup FilesOf(inputs1))
  PROVE  /\ Chosen(v, level, ExpandedInputs(v, level, inputs0, inputs1))
         /\ FilesOf(inputs0) \subseteq FilesOf(ExpandedInputs(v, level, inputs0, inputs1))
         /\ Gapless(FilesOf(ExpandedInputs(v, level, inputs0, inputs1)) \cup FilesOf(inputs1))
<1> DEFINE all == GetRange2(inputs0, inputs1)
           list == GetOverlappingInputs(v, level, all.smallest.key, all.largest.key)
           E == ExpandedInputs(v, level, inputs0, inputs1)
<1>1. E = inputs0 \/ E = list
  BY DEF ExpandedInputs, With
<1>2. CASE E = inputs0
  BY <1>2
<1>3. CASE E = list
  <2>1. PICK a \in Keys, z \in Keys : Solid(FilesOf(inputs0) \cup FilesOf(inputs1), a, z)
    BY DEF Gapless
  <2>2. inputs0 \in Seq(File) /\ inputs0 # <<>> /\ FilesOf(inputs0) \subseteq FilesOf(v[level])
    BY DEF Chosen
  <2>3. /\ inputs0 \o inputs1 \in Seq(File) /\ inputs0 \o inputs1 # <<>>
        /\ FilesOf(inputs0 \o inputs1) = FilesOf(inputs0) \cup FilesOf(inputs1)
    BY <2>2, FilesOfBoth
  <2>4. all.smallest.key = a /\ all.largest.key = z
    BY <2>1, <2>3, SolidRange DEF GetRange2
  <2>5. /\ FilesOf(inputs0) \in SUBSET File /\ FilesOf(inputs0) # {}
        /\ FilesOf(inputs1) \in SUBSET File
    BY <2>2, FilesAreFinite
  <2>6. a \in Int /\ z \in Int
    BY LSMAssumption
  <2>7. FilesOf(inputs0) \subseteq Hits(FilesOf(v[level]), a, z)
    <3> SUFFICES ASSUME NEW f \in FilesOf(inputs0) PROVE f \in Hits(FilesOf(v[level]), a, z)
      OBVIOUS
    <3>1. f \in File /\ f \in FilesOf(v[level]) /\ a <= f.smallest.key /\ f.largest.key <= z
      BY <2>1, <2>2, <2>5 DEF Solid, Within
    <3> QED BY <2>6, <3>1, FileBounds DEF Hits
  <2> DEFINE G == FilesOf(inputs0) \cup FilesOf(inputs1)
             L == GetOverlappingInputs(v, level, a, z)
  <2>8. L = E
    BY <1>3, <2>4
  <2>9. G \in SUBSET File /\ Solid(G, a, z) /\ Hits(FilesOf(v[level]), a, z) # {}
    BY <2>1, <2>5, <2>7
  <2>10. /\ Chosen(v, level, L) /\ Hits(FilesOf(v[level]), a, z) \subseteq FilesOf(L)
         /\ \E lo, hi \in Keys : Solid(G \cup FilesOf(L), lo, hi) /\ lo <= a /\ z <= hi
    <3> HIDE DEF G
    <3> QED BY <2>9, ChosenOver
  <2>11. G \cup FilesOf(L) = FilesOf(E) \cup FilesOf(inputs1)
    BY <2>7, <2>8, <2>10
  <2> HIDE DEF G, L, E
  <2> QED BY <2>7, <2>8, <2>10, <2>11 DEF E, Gapless
<1> QED BY <1>1, <1>2, <1>3

\* The inputs that SetupOtherInputs comes to.
Inputs(v, level, c) ==
  /\ c.level = level /\ c.grandparents \in Seq(File)
  /\ Chosen(v, level, c.inputs0)
  /\ c.inputs1 \in Seq(File)
  /\ FilesOf(c.inputs1) = Hits(FilesOf(v[level + 1]), GetRange(c.inputs0).smallest.key,
                               GetRange(c.inputs0).largest.key)
  /\ Gapless(FilesOf(c.inputs0) \cup FilesOf(c.inputs1))

\* Adding the files of the next level that meet the inputs leaves no gap.
LEMMA GaplessWithParents ==
  ASSUME NEW v \in [Levels -> Seq(File)], NEW level \in 0 .. kNumLevels - 2,
         NEW list \in Seq(File), list # <<>>, NEW G \in SUBSET File,
         FilesOf(list) \subseteq G, Gapless(G)
  PROVE  Gapless(G \cup FilesOf(ParentInputs(v, level, list)))
<1> DEFINE X == FilesOf(ParentInputs(v, level, list))
           s == GetRange(list).smallest.key
           l == GetRange(list).largest.key
<1>1. X = Hits(FilesOf(v[level + 1]), s, l) /\ X \in SUBSET File /\ IsFiniteSet(X)
  <2>1. ParentInputs(v, level, list) \in Seq(File)
    BY ParentsOf
  <2> QED BY <2>1, ParentsOf, FilesAreFinite
<1>2. PICK a \in Keys, z \in Keys : Solid(G, a, z)
  BY DEF Gapless
<1>3. s \in Keys /\ l \in Keys /\ s \in Int /\ l \in Int /\ a \in Int /\ z \in Int
  BY RangeOf, LSMAssumption
<1>4. a <= s /\ l <= z
  <2>1. PICK f \in FilesOf(list) : f.smallest = GetRange(list).smallest
    BY RangeOf
  <2>2. PICK g \in FilesOf(list) : g.largest = GetRange(list).largest
    BY RangeOf
  <2> QED BY <1>2, <2>1, <2>2 DEF Solid, Within
<1>5. \A f \in X : a <= f.largest.key /\ f.smallest.key <= z
  <2> SUFFICES ASSUME NEW f \in X PROVE a <= f.largest.key /\ f.smallest.key <= z
    OBVIOUS
  <2>1. s <= f.largest.key /\ f.smallest.key <= l /\ f \in File
    BY <1>1 DEF Hits
  <2> HIDE DEF s, l
  <2> QED BY <1>3, <1>4, <2>1, FileBounds
<1> HIDE DEF X
<1>6. \E lo, hi \in Keys : Solid(G \cup X, lo, hi) /\ lo <= a /\ z <= hi
  BY <1>1, <1>2, <1>5, HitsStaySolid
<1> QED BY <1>6 DEF Gapless, X

\* SetupOtherInputs: the inputs of both levels are all that meet their range.
LEMMA SetupIsGood ==
  ASSUME NEW v \in [Levels -> Seq(File)], NEW level \in 0 .. kNumLevels - 2,
         NEW inputs0, Chosen(v, level, inputs0), Gapless(FilesOf(inputs0))
  PROVE  Inputs(v, level, SetupOtherInputs(v, level, inputs0))
<1> DEFINE i1 == ParentInputs(v, level, inputs0)
           f0 == ExpandedInputs(v, level, inputs0, i1)
           f1 == IF f0 = inputs0 THEN i1 ELSE ParentInputs(v, level, f0)
           c == SetupOtherInputs(v, level, inputs0)
<1>0. c = Compaction(v, level, f0, f1)
  <2> DEFINE A(i, f) == Compaction(v, level, f, IF f = inputs0 THEN i ELSE ParentInputs(v, level, f))
             B(i) == CHOOSE r \in {A(i, f) : f \in {ExpandedInputs(v, level, inputs0, i)}} : TRUE
  <2>1. c = CHOOSE r \in {B(i) : i \in {i1}} : TRUE
    BY DEF SetupOtherInputs, With
  <2>2. B(i1) = A(i1, f0)
    <3> HIDE DEF A, i1
    <3> QED OBVIOUS
  <2>3. c = B(i1)
    <3> HIDE DEF B, i1, c
    <3> QED BY <2>1
  <2> QED BY <2>2, <2>3
<1>1. c.level = level /\ c.inputs0 = f0 /\ c.inputs1 = f1
  <2> HIDE DEF f0, f1, c
  <2> QED BY <1>0 DEF Compaction
<1>2. inputs0 \in Seq(File) /\ inputs0 # <<>> /\ FilesOf(inputs0) \in SUBSET File
  BY FilesAreFinite DEF Chosen
<1>3. i1 \in Seq(File) /\ Gapless(FilesOf(inputs0) \cup FilesOf(i1)) /\ FilesOf(i1) \in SUBSET File
  <2>1. i1 \in Seq(File)
    BY <1>2, ParentsOf
  <2>2. Gapless(FilesOf(inputs0) \cup FilesOf(i1))
    BY <1>2, GaplessWithParents
  <2> QED BY <2>1, <2>2, FilesAreFinite
<1>4. /\ Chosen(v, level, f0) /\ FilesOf(inputs0) \subseteq FilesOf(f0)
      /\ Gapless(FilesOf(f0) \cup FilesOf(i1))
  BY <1>3, Expansion
<1>5. f0 \in Seq(File) /\ f0 # <<>> /\ FilesOf(f0) \in SUBSET File
  BY <1>4, FilesAreFinite DEF Chosen
<1>6. f1 = ParentInputs(v, level, f0)
  OBVIOUS
<1>7. Gapless((FilesOf(f0) \cup FilesOf(i1)) \cup FilesOf(ParentInputs(v, level, f0)))
  BY <1>3, <1>4, <1>5, GaplessWithParents
<1>8. FilesOf(i1) \subseteq FilesOf(ParentInputs(v, level, f0))
  <2>1. /\ FilesOf(i1) = Hits(FilesOf(v[level + 1]), GetRange(inputs0).smallest.key, GetRange(inputs0).largest.key)
        /\ FilesOf(ParentInputs(v, level, f0))
             = Hits(FilesOf(v[level + 1]), GetRange(f0).smallest.key, GetRange(f0).largest.key)
    BY <1>2, <1>5, ParentsOf
  <2>2. GetRange(f0).smallest.key <= GetRange(inputs0).smallest.key
    <3>1. PICK f \in FilesOf(inputs0) : f.smallest = GetRange(inputs0).smallest
      BY <1>2, RangeOf
    <3>2. Within(FilesOf(f0), GetRange(f0).smallest.key, GetRange(f0).largest.key)
      BY <1>5, RangeOf
    <3> QED BY <1>4, <3>1, <3>2 DEF Within
  <2>3. GetRange(inputs0).largest.key <= GetRange(f0).largest.key
    <3>1. PICK f \in FilesOf(inputs0) : f.largest = GetRange(inputs0).largest
      BY <1>2, RangeOf
    <3>2. Within(FilesOf(f0), GetRange(f0).smallest.key, GetRange(f0).largest.key)
      BY <1>5, RangeOf
    <3> QED BY <1>4, <3>1, <3>2 DEF Within
  <2> DEFINE s0 == GetRange(f0).smallest.key
             l0 == GetRange(f0).largest.key
             s == GetRange(inputs0).smallest.key
             l == GetRange(inputs0).largest.key
  <2>4. s0 \in Int /\ l0 \in Int /\ s \in Int /\ l \in Int
    BY <1>2, <1>5, RangeOf, LSMAssumption
  <2> SUFFICES ASSUME NEW f \in FilesOf(i1) PROVE f \in FilesOf(ParentInputs(v, level, f0))
    OBVIOUS
  <2>5. f \in File /\ f \in FilesOf(v[level + 1]) /\ s <= f.largest.key /\ f.smallest.key <= l
    BY <1>3, <2>1 DEF Hits
  <2>6. s0 <= s /\ l <= l0
    BY <2>2, <2>3
  <2>7. f \in Hits(FilesOf(v[level + 1]), s0, l0)
    <3> HIDE DEF s0, l0, s, l
    <3> QED BY <2>4, <2>5, <2>6, FileBounds DEF Hits
  <2> QED BY <2>1, <2>7
<1>9. (FilesOf(f0) \cup FilesOf(i1)) \cup FilesOf(f1) = FilesOf(f0) \cup FilesOf(f1)
  BY <1>6, <1>8
<1>10. /\ f1 \in Seq(File)
       /\ FilesOf(f1) = Hits(FilesOf(v[level + 1]), GetRange(f0).smallest.key, GetRange(f0).largest.key)
  BY <1>5, <1>6, ParentsOf
<1>11. c.grandparents \in Seq(File)
  <2> DEFINE r == GetRange2(f0, f1)
             A(x) == IF level + 2 < kNumLevels
                     THEN GetOverlappingInputs(v, level + 2, x.smallest.key, x.largest.key) ELSE <<>>
  <2>1. r.smallest.key \in Keys /\ r.largest.key \in Keys
    <3>1. f0 \o f1 \in Seq(File) /\ f0 \o f1 # <<>>
      BY <1>5, <1>10, FilesOfBoth
    <3> QED BY <3>1, RangeOf DEF GetRange2
  <2>2. c.grandparents = A(r)
    <3> HIDE DEF f0, f1, c
    <3>1. c.grandparents = CHOOSE g \in {A(x) : x \in {r}} : TRUE
      BY <1>0 DEF Compaction, With
    <3> HIDE DEF A, r
    <3> QED BY <3>1
  <2> HIDE DEF r, c
  <2>3. CASE level + 2 < kNumLevels
    <3>1. level + 2 \in Levels /\ level + 2 # 0
      BY <2>3, LevelsAssumption DEF Levels
    <3>2. A(r) = GetOverlappingInputs(v, level + 2, r.smallest.key, r.largest.key)
      BY <2>3
    <3> HIDE DEF A
    <3> QED BY <2>1, <2>2, <3>1, <3>2, InputsAbove0
  <2>4. CASE ~(level + 2 < kNumLevels)
    BY <2>2, <2>4
  <2> QED BY <2>3, <2>4
<1> HIDE DEF f0, f1, i1, c
<1>12. Gapless(FilesOf(f0) \cup FilesOf(f1))
  BY <1>6, <1>7, <1>9
<1> QED BY <1>1, <1>4, <1>10, <1>11, <1>12 DEF Inputs, c

-----------------------------------------------------------------------------
(* Picking a compaction                                                    *)

\* A compaction made from one picked file has good inputs.
LEMMA CompactionOfIsGood ==
  ASSUME NEW v \in [Levels -> Seq(File)], NEW level \in 0 .. kNumLevels - 2,
         NEW picked \in FilesOf(v[level])
  PROVE  Inputs(v, level, CompactionOf(v, level, picked))
<1> DEFINE a == picked.smallest.key
           z == picked.largest.key
           list == IF level = 0 THEN GetOverlappingInputs(v, 0, a, z) ELSE <<picked>>
<1>1. level \in Levels /\ picked \in File
  <2>1. level \in Levels
    BY LevelsAssumption DEF Levels
  <2> QED BY <2>1, FilesAreFinite
<1>2. a \in Keys /\ z \in Keys /\ a \in Int /\ z \in Int /\ a <= z
  BY <1>1, FileBounds
<1>3. Solid({picked}, a, z) /\ {picked} \in SUBSET File
  <2>1. \A k \in a .. z : \E f \in {picked} : f.smallest.key <= k /\ k <= f.largest.key
    BY <1>2
  <2> QED BY <1>1, <1>2, <2>1 DEF Solid, Within
<1>4. picked \in Hits(FilesOf(v[level]), a, z)
  BY <1>1, <1>2, FileBounds DEF Hits
<1>5. Chosen(v, level, list) /\ Gapless(FilesOf(list))
  <2>1. CASE level = 0
    <3> DEFINE L == GetOverlappingInputs(v, level, a, z)
               G == {picked}
    <3>1. /\ Chosen(v, level, L) /\ Hits(FilesOf(v[level]), a, z) \subseteq FilesOf(L)
          /\ \E lo, hi \in Keys : Solid(G \cup FilesOf(L), lo, hi) /\ lo <= a /\ z <= hi
      <4>1. G \in SUBSET File /\ Solid(G, a, z) /\ Hits(FilesOf(v[level]), a, z) # {}
        BY <1>3, <1>4
      <4> HIDE DEF G, a, z
      <4> QED BY <1>2, <4>1, ChosenOver
    <3>2. L = list
      BY <2>1
    <3>3. G \cup FilesOf(L) = FilesOf(list)
      BY <1>4, <3>1, <3>2
    <3> HIDE DEF L, G, list
    <3> QED BY <3>1, <3>2, <3>3 DEF Gapless
  <2>2. CASE level # 0
    <3>1. list = <<picked>> /\ list \in Seq(File) /\ list # <<>>
      BY <1>1, <2>2
    <3>2. FilesOf(<<picked>>) = {picked}
      BY DEF FilesOf
    <3> HIDE DEF list, a, z
    <3> QED BY <1>2, <1>3, <2>2, <3>1, <3>2 DEF Chosen, Gapless
  <2> QED BY <2>1, <2>2
<1>6. CompactionOf(v, level, picked) = SetupOtherInputs(v, level, list)
  BY DEF CompactionOf
<1> HIDE DEF list
<1> QED BY <1>5, <1>6, SetupIsGood

\* The file after the compaction pointer is one of the level.
LEMMA NextFileIsThere ==
  ASSUME NEW files \in Seq(File), files # <<>>, NEW pointer
  PROVE  NextFile(files, pointer) \in FilesOf(files)
<1> DEFINE after == {i \in DOMAIN files : pointer = NULL \/ Less(pointer, files[i].largest)}
           n == Len(files)
<1>1. DOMAIN files = 1 .. n /\ n \in Int /\ 1 \in Int /\ 1 \in DOMAIN files /\ after \in SUBSET (1 .. n)
  OBVIOUS
<1>2. NextFile(files, pointer) = IF after = {} THEN files[1] ELSE files[CHOOSE i \in after : \A j \in after : i <= j]
  BY DEF NextFile
<1>3. after # {} => \E i \in after : \A j \in after : i <= j
  <2> HIDE DEF after, n
  <2> QED BY <1>1, LeastIndex
<1>4. after \subseteq DOMAIN files
  OBVIOUS
<1> HIDE DEF after, n
<1>5. after # {} => (CHOOSE i \in after : \A j \in after : i <= j) \in DOMAIN files
  BY <1>3, <1>4
<1> QED BY <1>1, <1>2, <1>5 DEF FilesOf

\* The file whose seeks ran out, as Version::Get and UpdateStats leave it.
Charged(v, probe) ==
  probe # NULL => probe.level \in 0 .. kNumLevels - 2 /\ probe.file \in FilesOf(v[probe.level])

\* PickCompaction finds good inputs, from the fullest level or from the file a
\* seek was charged to.
LEMMA PickIsGood ==
  ASSUME NEW v \in [Levels -> Seq(File)], NEW cp, NEW probe, Charged(v, probe),
         NeedsCompaction(v, probe)
  PROVE  \E level \in 0 .. kNumLevels - 2 : Inputs(v, level, PickCompaction(v, cp, probe))
<1>1. CASE SizeCompaction(v)
  <2> DEFINE l == Finalize(v)
             picked == NextFile(v[l], cp[l])
  <2>1. l \in 0 .. kNumLevels - 2 /\ l \in Levels /\ v[l] # <<>>
    BY <1>1, FinalizePicks, LevelsAssumption DEF Levels
  <2>2. picked \in FilesOf(v[l])
    BY <2>1, NextFileIsThere
  <2>3. PickCompaction(v, cp, probe) = CompactionOf(v, l, picked)
    <3> DEFINE A(k) == CompactionOf(v, k, NextFile(v[k], cp[k]))
    <3>1. PickCompaction(v, cp, probe) = CHOOSE r \in {A(k) : k \in {Finalize(v)}} : TRUE
      BY <1>1 DEF PickCompaction, With
    <3> HIDE DEF A
    <3>2. PickCompaction(v, cp, probe) = A(Finalize(v))
      BY <3>1
    <3> QED BY <3>2 DEF A
  <2> HIDE DEF l, picked
  <2> QED BY <2>1, <2>2, <2>3, CompactionOfIsGood
<1>2. CASE ~SizeCompaction(v)
  <2>1. probe # NULL
    BY <1>2 DEF NeedsCompaction
  <2>2. PickCompaction(v, cp, probe) = CompactionOf(v, probe.level, probe.file)
    BY <1>2, <2>1 DEF PickCompaction
  <2>3. probe.level \in 0 .. kNumLevels - 2 /\ probe.file \in FilesOf(v[probe.level])
    BY <2>1 DEF Charged
  <2> QED BY <2>2, <2>3, CompactionOfIsGood
<1> QED BY <1>1, <1>2

\* A flushed memtable goes past a level only if it overlaps nothing up to it.
LEMMA FlushLevel ==
  ASSUME NEW v \in [Levels -> Seq(File)], \A level \in Levels \ {0} : InOrder(v[level]),
         NEW a \in Keys, NEW z \in Keys
  PROVE  /\ PickLevelForMemTableOutput(v, a, z) \in Levels
         /\ PickLevelForMemTableOutput(v, a, z) # 0 =>
              \A l \in 0 .. PickLevelForMemTableOutput(v, a, z) :
                \A f \in FilesOf(v[l]) : f.largest.key < a \/ z < f.smallest.key
<1> DEFINE Stops(level) ==
             \/ level >= kMaxMemCompactLevel
             \/ OverlapInLevel(v, level + 1, a, z)
             \/ /\ level + 2 < kNumLevels
                /\ TotalFileSize(GetOverlappingInputs(v, level + 2, a, z))
                     > MaxGrandParentOverlapBytes
           L == PickLevelForMemTableOutput(v, a, z)
           m == kMaxMemCompactLevel
           I == {l \in 0 .. m : Stops(l)}
<1>1. m \in Nat /\ 0 .. m \subseteq Levels /\ 0 \in Levels /\ kNumLevels \in Nat /\ m < kNumLevels
  BY LevelsAssumption DEF Levels
<1>2. L = IF OverlapInLevel(v, 0, a, z) THEN 0
          ELSE CHOOSE level \in Levels : Stops(level) /\ \A l \in 0 .. level - 1 : ~Stops(l)
  BY DEF PickLevelForMemTableOutput
<1>3. \E level \in Levels : level <= m /\ Stops(level) /\ \A l \in 0 .. level - 1 : ~Stops(l)
  <2>1. m \in I
    BY <1>1
  <2>0. I \subseteq 0 .. m
    <3> HIDE DEF Stops, m
    <3> QED OBVIOUS
  <2> HIDE DEF Stops
  <2>2. \E i \in I : \A j \in I : i <= j
    <3>1. 0 \in Int /\ m \in Int /\ I \in SUBSET (0 .. m) /\ I # {}
      <4> HIDE DEF I, m
      <4> QED BY <1>1, <2>0, <2>1
    <3> HIDE DEF I, m
    <3> QED BY ONLY <3>1, LeastIndex
  <2>3. PICK i \in I : \A j \in I : i <= j
    BY <2>2
  <2>4. \A l \in 0 .. i - 1 : ~Stops(l)
    <3> SUFFICES ASSUME NEW l \in 0 .. i - 1, Stops(l) PROVE FALSE
      OBVIOUS
    <3>1. l \in I /\ l < i
      BY <1>1, <2>3
    <3> QED BY <1>1, <2>3, <3>1
  <2> QED BY <1>1, <2>3, <2>4
<1>4. Levels \subseteq Int
  BY DEF Levels
<1> HIDE DEF Stops
<1>5. CASE OverlapInLevel(v, 0, a, z)
  BY <1>1, <1>2, <1>5
<1>6. CASE ~OverlapInLevel(v, 0, a, z)
  <2>1. L \in Levels /\ Stops(L) /\ \A l \in 0 .. L - 1 : ~Stops(l)
    BY <1>2, <1>3, <1>6
  <2>2. ASSUME NEW l \in 0 .. L PROVE ~OverlapInLevel(v, l, a, z) /\ l \in Levels
    <3>1. L \in Int /\ l \in Int /\ l \in Levels
      BY <1>1, <2>1 DEF Levels
    <3>2. CASE l = 0
      BY <1>6, <3>1, <3>2
    <3>3. CASE l # 0
      <4> DEFINE k == l - 1
      <4>1. k \in 0 .. L - 1 /\ k + 1 = l
        BY <3>1, <3>3
      <4>2. ~Stops(k)
        BY <2>1, <4>1
      <4>3. ~OverlapInLevel(v, k + 1, a, z)
        BY <4>2 DEF Stops
      <4> HIDE DEF k
      <4> QED BY <3>1, <4>1, <4>3
    <3> QED BY <3>2, <3>3
  <2> HIDE DEF L
  <2>3. ASSUME NEW l \in 0 .. L
        PROVE  \A f \in FilesOf(v[l]) : f.largest.key < a \/ z < f.smallest.key
    <3>1. l > 0 => InOrder(v[l])
      BY <2>2
    <3> QED BY <2>2, <3>1, NoOverlap
  <2> QED BY <2>1, <2>3 DEF L
<1> QED BY <1>5, <1>6

-----------------------------------------------------------------------------
(* A version edit                                                          *)

\* The files of a level after an edit.
After(v, level, deleted, added) ==
  {f \in FilesOf(v[level]) : <<level, f>> \notin deleted}
    \cup {f \in {a[2] : a \in added} : <<level, f>> \in added}

Apart(f, g) == Less(f.largest, g.smallest) \/ Less(g.largest, f.smallest)

\* BySmallestKey orders files with numbers of their own.
LEMMA FileOrder ==
  ASSUME NEW S \in SUBSET File, \A f, g \in S : f.number = g.number => f = g
  PROVE  Orders({p \in S \X S : BySmallestKey(p[1], p[2])}, S)
<1> DEFINE R == {p \in S \X S : BySmallestKey(p[1], p[2])}
<1>1. \A f, g \in S : <<f, g>> \in R <=> BySmallestKey(f, g)
  OBVIOUS
<1>2. \A f \in S : f.smallest \in IKey /\ f.number \in Nat
  BY FileBounds, EntriesAreKeys
<1> HIDE DEF R
<1>3. \A f, g \in S : <<f, g>> \in R => <<g, f>> \notin R
  <2> SUFFICES ASSUME NEW f \in S, NEW g \in S, BySmallestKey(f, g), BySmallestKey(g, f) PROVE FALSE
    BY <1>1
  <2> QED BY <1>2, KeyOrder DEF BySmallestKey
<1>4. \A f, g, h \in S : <<f, g>> \in R /\ <<g, h>> \in R => <<f, h>> \in R
  <2> SUFFICES ASSUME NEW f \in S, NEW g \in S, NEW h \in S, BySmallestKey(f, g), BySmallestKey(g, h)
               PROVE  BySmallestKey(f, h)
    BY <1>1
  <2>1. CASE Less(f.smallest, g.smallest) /\ Less(g.smallest, h.smallest)
    BY <1>2, <2>1, KeyOrder DEF BySmallestKey
  <2>2. CASE ~(Less(f.smallest, g.smallest) /\ Less(g.smallest, h.smallest))
    BY <1>2, <2>2 DEF BySmallestKey
  <2> QED BY <2>1, <2>2
<1>5. \A f, g \in S : f # g => <<f, g>> \in R \/ <<g, f>> \in R
  <2> SUFFICES ASSUME NEW f \in S, NEW g \in S, f # g PROVE BySmallestKey(f, g) \/ BySmallestKey(g, f)
    BY <1>1
  <2>1. f.number # g.number
    OBVIOUS
  <2>2. Less(f.smallest, g.smallest) \/ f.smallest = g.smallest \/ Less(g.smallest, f.smallest)
    BY <1>2, KeyOrder
  <2> QED BY <1>2, <2>1, <2>2 DEF BySmallestKey
<1>6. Orders(R, S)
  BY <1>3, <1>4, <1>5 DEF Orders
<1> QED BY <1>6 DEF R

\* SaveTo lists the files of a level, and in order when they are apart.
LEMMA SortedIntoALevel ==
  ASSUME NEW S \in SUBSET File, IsFiniteSet(S), \A f, g \in S : f.number = g.number => f = g
  PROVE  /\ Sorted(S, BySmallestKey) \in Seq(File)
         /\ FilesOf(Sorted(S, BySmallestKey)) = S
         /\ (\A f, g \in S : f # g => Apart(f, g)) => InOrder(Sorted(S, BySmallestKey))
<1> DEFINE R == {p \in S \X S : BySmallestKey(p[1], p[2])}
           list == Sorted(S, BySmallestKey)
<1>1. Orders(R, S)
  BY FileOrder
<1>2. Enumerates(list, S, R)
  BY <1>1, SortedFiles
<1>3. \A f, g \in S : <<f, g>> \in R <=> BySmallestKey(f, g)
  OBVIOUS
<1> HIDE DEF R, list
<1>4. list \in Seq(S) /\ FilesOf(list) = S /\ \A i \in DOMAIN list : list[i] \in S
  BY <1>2 DEF Enumerates, FilesOf
<1>5. list \in Seq(File)
  BY <1>4
<1>6. ASSUME \A f, g \in S : f # g => Apart(f, g) PROVE InOrder(list)
  <2> SUFFICES ASSUME NEW i \in DOMAIN list, NEW j \in DOMAIN list, i < j
               PROVE  Less(list[i].largest, list[j].smallest)
    BY DEF InOrder
  <2> DEFINE f == list[i]
             g == list[j]
  <2>1. f \in S /\ g \in S /\ <<f, g>> \in R
    BY <1>2, <1>4 DEF Enumerates
  <2>2. f # g /\ BySmallestKey(f, g)
    BY <1>1, <1>3, <2>1 DEF Orders
  <2> HIDE DEF f, g
  <2>3. f.smallest \in IKey /\ g.smallest \in IKey /\ g.largest \in IKey /\ LessEq(g.smallest, g.largest)
    BY <2>1, FileBounds, EntriesAreKeys
  <2>4. ~Less(g.largest, f.smallest)
    <3> SUFFICES ASSUME Less(g.largest, f.smallest) PROVE FALSE
      OBVIOUS
    <3>1. Less(g.smallest, f.smallest)
      BY <2>3, KeyOrder
    <3> QED BY <2>2, <2>3, <3>1, KeyOrder DEF BySmallestKey
  <2>5. Less(f.largest, g.smallest)
    BY <1>6, <2>1, <2>2, <2>4 DEF Apart
  <2> QED BY <2>5 DEF f, g
<1> QED BY <1>4, <1>5, <1>6 DEF list

\* What SaveTo makes of one level.
LEMMA EditedLevel ==
  ASSUME NEW v, NEW level \in Levels, NEW deleted, NEW added,
         After(v, level, deleted, added) \in SUBSET File,
         IsFiniteSet(After(v, level, deleted, added)),
         \A f, g \in After(v, level, deleted, added) : f.number = g.number => f = g
  PROVE  /\ ApplyEdit(v, deleted, added)[level] \in Seq(File)
         /\ FilesOf(ApplyEdit(v, deleted, added)[level]) = After(v, level, deleted, added)
         /\ (\A f, g \in After(v, level, deleted, added) : f # g => Apart(f, g))
              => InOrder(ApplyEdit(v, deleted, added)[level])
<1>1. ApplyEdit(v, deleted, added)[level] = Sorted(After(v, level, deleted, added), BySmallestKey)
  BY DEF ApplyEdit, After
<1> DEFINE S == After(v, level, deleted, added)
<1>2. S \in SUBSET File /\ IsFiniteSet(S) /\ \A f, g \in S : f.number = g.number => f = g
  OBVIOUS
<1> HIDE DEF S
<1>3. /\ Sorted(S, BySmallestKey) \in Seq(File)
      /\ FilesOf(Sorted(S, BySmallestKey)) = S
      /\ (\A f, g \in S : f # g => Apart(f, g)) => InOrder(Sorted(S, BySmallestKey))
  BY <1>2, SortedIntoALevel
<1> QED BY <1>1, <1>3 DEF S

-----------------------------------------------------------------------------
(* The merge                                                               *)

MergeState(c) ==
  [done : Seq(SUBSET Entry), builder : SUBSET Entry, seen_key : BOOLEAN,
   grandparent_index : 1 .. Len(c.grandparents) + 1, overlapped_bytes : Nat]

\* Each entry of P is in rest or in one of the sets of done.
Placed(P, done, rest) == \A e \in P : e \in rest \/ \E i \in DOMAIN done : e \in done[i]

\* What the merge has made of the entries in P: outputs in order, the open one
\* last.
Making(st, P) ==
  /\ IsFiniteSet(P) /\ st.builder \subseteq P
  /\ Placed(P, st.done, st.builder)
  /\ \A i \in DOMAIN st.done : st.done[i] # {} /\ st.done[i] \subseteq P
  /\ \A i, j \in DOMAIN st.done : i < j => \A e \in st.done[i], o \in st.done[j] : Less(e, o)
  /\ \A i \in DOMAIN st.done : \A e \in st.done[i], o \in st.builder : Less(e, o)

\* ShouldStopBefore advances within the grandparents.
LEMMA GrandparentsPassed ==
  ASSUME NEW c, c.grandparents \in Seq(File), NEW st \in MergeState(c), NEW ikey
  PROVE  /\ ShouldStopBefore(c, st, ikey).grandparent_index \in 1 .. Len(c.grandparents) + 1
         /\ ShouldStopBefore(c, st, ikey).overlapped_bytes \in Nat
<1> DEFINE gp == c.grandparents
           n == Len(gp)
           g == st.grandparent_index
           passed == {i \in g .. n : \A j \in g .. i : Less(gp[j].largest, ikey)}
           index == g + Cardinality(passed)
           bytes == st.overlapped_bytes
                      + IF st.seen_key THEN TotalFileSize(SubSeq(gp, g, index - 1)) ELSE 0
           sb == ShouldStopBefore(c, st, ikey)
<1>1. n \in Nat /\ g \in 1 .. n + 1 /\ st.overlapped_bytes \in Nat
  BY DEF MergeState
<1>2. index \in g .. n + 1
  <2>1. IsFiniteSet(g .. n) /\ Cardinality(g .. n) = IF g > n THEN 0 ELSE n - g + 1
    <3> HIDE DEF g, n
    <3>1. g \in Int /\ n \in Int
      BY <1>1
    <3> QED BY <3>1, FS_Interval
  <2>2. passed \subseteq g .. n
    OBVIOUS
  <2>3. Cardinality(passed) \in Nat /\ Cardinality(passed) <= Cardinality(g .. n)
    <3> HIDE DEF passed, g, n
    <3> QED BY <2>1, <2>2, FS_Subset, FS_CardinalityType
  <2> HIDE DEF passed, g, n
  <2> QED BY <1>1, <2>1, <2>3
<1>3. SubSeq(gp, g, index - 1) \in Seq(File)
  <2> HIDE DEF index, g
  <2>1. index - 1 <= n /\ index - 1 \in Int /\ g \in Int /\ g >= 1
    BY <1>1, <1>2
  <2>2. \A i \in g .. index - 1 : gp[i] \in File
    BY <2>1
  <2> HIDE DEF gp, n
  <2> QED BY <2>1, <2>2, SubSeqProperties
<1>4. bytes \in Nat
  <2>1. TotalFileSize(SubSeq(gp, g, index - 1)) \in Nat
    BY <1>3, SizesAreNumbers
  <2> QED BY <1>1, <2>1
<1>5. /\ sb.grandparent_index = index
      /\ sb.overlapped_bytes = IF bytes > MaxGrandParentOverlapBytes THEN 0 ELSE bytes
  BY DEF ShouldStopBefore
<1> HIDE DEF index, bytes, sb, g
<1>6. index \in 1 .. n + 1
  BY <1>1, <1>2
<1> QED BY <1>4, <1>5, <1>6 DEF sb

\* FinishCompactionOutputFile closes the output and loses nothing.
LEMMA Closing ==
  ASSUME NEW c, NEW st \in MergeState(c)
  PROVE  /\ CloseOutput(st) \in MergeState(c) /\ CloseOutput(st).builder = {}
         /\ \A P : Making(st, P) => Making(CloseOutput(st), P)
<1>1. CASE st.builder = {}
  BY <1>1 DEF CloseOutput
<1>2. CASE st.builder # {}
  <2> DEFINE d == Append(st.done, st.builder)
             n == Len(st.done)
             cl == CloseOutput(st)
  <2>1. cl = [st EXCEPT !.done = d, !.builder = {}]
    BY <1>2 DEF CloseOutput
  <2>2. st.done \in Seq(SUBSET Entry) /\ st.builder \in SUBSET Entry
    BY DEF MergeState
  <2>3. /\ d \in Seq(SUBSET Entry) /\ n \in Nat /\ DOMAIN d = 1 .. n + 1 /\ DOMAIN st.done = 1 .. n
        /\ d[n + 1] = st.builder /\ \A i \in 1 .. n : d[i] = st.done[i]
    BY <2>2
  <2> HIDE DEF d, n
  <2>4. cl \in MergeState(c) /\ cl.done = d /\ cl.builder = {}
    BY <2>1, <2>3 DEF MergeState
  <2>5. \A i \in DOMAIN d : i \in 1 .. n \/ i = n + 1
    BY <2>3
  <2>6. ASSUME NEW P, Making(st, P) PROVE Making(cl, P)
    <3>1. \A i \in DOMAIN d : d[i] # {} /\ d[i] \subseteq P
      BY <1>2, <2>3, <2>5, <2>6 DEF Making
    <3>2. ASSUME NEW i \in DOMAIN d, NEW j \in DOMAIN d, i < j, NEW e \in d[i], NEW o \in d[j]
          PROVE  Less(e, o)
      <4>1. i \in 1 .. n
        BY <2>3, <3>2
      <4>2. CASE j \in 1 .. n
        <5>1. e \in st.done[i] /\ o \in st.done[j] /\ i \in DOMAIN st.done /\ j \in DOMAIN st.done
          BY <2>3, <4>1, <4>2
        <5> QED BY <2>6, <3>2, <5>1 DEF Making
      <4>3. CASE j = n + 1
        <5>1. e \in st.done[i] /\ o \in st.builder /\ i \in DOMAIN st.done
          BY <2>3, <4>1, <4>3
        <5> QED BY <2>6, <5>1 DEF Making
      <4> QED BY <2>5, <4>2, <4>3
    <3>3. IsFiniteSet(P)
      BY <2>6 DEF Making
    <3>4. ASSUME NEW e \in P PROVE \E i \in DOMAIN d : e \in d[i]
      <4>1. e \in st.builder \/ \E i \in DOMAIN st.done : e \in st.done[i]
        BY <2>6 DEF Making, Placed
      <4>2. n + 1 \in DOMAIN d /\ \A i \in 1 .. n : i \in DOMAIN d
        BY <2>3
      <4> QED BY <2>3, <4>1, <4>2
    <3> HIDE DEF cl
    <3>5. Placed(P, cl.done, cl.builder)
      BY <2>4, <3>4 DEF Placed
    <3> QED BY <2>4, <3>1, <3>2, <3>3, <3>5 DEF Making
  <2> HIDE DEF cl
  <2> QED BY <2>4, <2>6 DEF cl
<1> QED BY <1>1, <1>2

\* An entry larger than all before is added to the output.
LEMMA Growing ==
  ASSUME NEW c, NEW st \in MergeState(c), NEW e \in Entry
  PROVE  /\ AddToOutput(c, st, e) \in MergeState(c)
         /\ \A P : Making(st, P) /\ (\A o \in P : Less(o, e)) => Making(AddToOutput(c, st, e), P \cup {e})
<1> DEFINE grown == [st EXCEPT !.builder = @ \cup {e}]
           A(x) == IF Cardinality(x.builder) >= MaxFileSizeForLevel(c.level) THEN CloseOutput(x) ELSE x
<1>1. AddToOutput(c, st, e) = A(grown)
  <2>1. AddToOutput(c, st, e) = CHOOSE r \in {A(x) : x \in {grown}} : TRUE
    BY DEF AddToOutput, With
  <2> HIDE DEF A, grown
  <2> QED BY <2>1
<1>2. grown \in MergeState(c) /\ grown.done = st.done /\ grown.builder = st.builder \cup {e}
  BY DEF MergeState
<1> HIDE DEF grown
<1>3. ASSUME NEW P, Making(st, P), \A o \in P : Less(o, e) PROVE Making(grown, P \cup {e})
  <2>1. IsFiniteSet(P \cup {e})
    BY <1>3, FS_AddElement DEF Making
  <2>2. \A i \in DOMAIN st.done : st.done[i] # {} /\ st.done[i] \subseteq P \cup {e}
    BY <1>3 DEF Making
  <2>3. ASSUME NEW i \in DOMAIN st.done, NEW d \in st.done[i], NEW o \in st.builder \cup {e}
        PROVE  Less(d, o)
    <3>1. d \in P
      BY <1>3 DEF Making
    <3> QED BY <1>3, <3>1 DEF Making
  <2>4. Placed(P \cup {e}, st.done, st.builder \cup {e})
    BY <1>3 DEF Making, Placed
  <2> QED BY <1>2, <1>3, <2>1, <2>2, <2>3, <2>4 DEF Making
<1>4. CloseOutput(grown) \in MergeState(c) /\ \A P : Making(grown, P) => Making(CloseOutput(grown), P)
  BY <1>2, Closing
<1>5. A(grown) = grown \/ A(grown) = CloseOutput(grown)
  OBVIOUS
<1> HIDE DEF A
<1> QED BY <1>1, <1>2, <1>3, <1>4, <1>5

\* One round of the loop of DoCompactionWork drops the entry or adds it.
LEMMA OneRound ==
  ASSUME NEW c, c.grandparents \in Seq(File), NEW v, NEW snapshot, NEW input, NEW i,
         input[i] \in Entry, NEW st \in MergeState(c)
  PROVE  /\ MergeStep(v, c, snapshot, input, i, st) \in MergeState(c)
         /\ \A P : Making(st, P) /\ (\A o \in P : Less(o, input[i])) =>
              Making(MergeStep(v, c, snapshot, input, i, st),
                     IF Drop(v, c, snapshot, LastSequenceForKey(input, i), input[i])
                     THEN P ELSE P \cup {input[i]})
<1> DEFINE sb == ShouldStopBefore(c, st, input[i])
           cur == IF sb.stop THEN CloseOutput(st) ELSE st
           next == [cur EXCEPT !.seen_key = TRUE, !.grandparent_index = sb.grandparent_index,
                               !.overlapped_bytes = sb.overlapped_bytes]
           res == MergeStep(v, c, snapshot, input, i, st)
           drop == Drop(v, c, snapshot, LastSequenceForKey(input, i), input[i])
<1>1. res = IF drop THEN next ELSE AddToOutput(c, next, input[i])
  BY DEF MergeStep
<1>2. sb.grandparent_index \in 1 .. Len(c.grandparents) + 1 /\ sb.overlapped_bytes \in Nat
  BY GrandparentsPassed
<1>3. cur \in MergeState(c) /\ \A P : Making(st, P) => Making(cur, P)
  BY Closing
<1> HIDE DEF sb, cur, res, drop
<1>4. next \in MergeState(c) /\ next.done = cur.done /\ next.builder = cur.builder
  BY <1>2, <1>3 DEF MergeState
<1> HIDE DEF next
<1>5. \A P : Making(st, P) => Making(next, P)
  BY <1>3, <1>4 DEF Making
<1>7. /\ AddToOutput(c, next, input[i]) \in MergeState(c)
      /\ \A P : Making(next, P) /\ (\A o \in P : Less(o, input[i]))
                  => Making(AddToOutput(c, next, input[i]), P \cup {input[i]})
  BY <1>4, Growing
<1>8. res \in MergeState(c)
  BY <1>1, <1>4, <1>7
<1>9. \A P : Making(st, P) /\ (\A o \in P : Less(o, input[i]))
                => Making(res, IF drop THEN P ELSE P \cup {input[i]})
  BY <1>1, <1>5, <1>7
<1> QED BY <1>8, <1>9 DEF res, drop

\* Non-empty finite sets of entries of P, one after the other, with all of P.
InPieces(out, P) ==
  /\ out \in Seq(SUBSET Entry)
  /\ \A i \in DOMAIN out : out[i] # {} /\ IsFiniteSet(out[i]) /\ out[i] \subseteq P
  /\ \A i, j \in DOMAIN out : i < j => \A e \in out[i], o \in out[j] : Less(e, o)
  /\ \A e \in P : \E i \in DOMAIN out : e \in out[i]

\* The entries a merge does not drop.
Kept(v, c, snapshot, input) ==
  {input[i] : i \in {j \in DOMAIN input :
                      ~Drop(v, c, snapshot, LastSequenceForKey(input, j), input[j])}}

\* The loop of DoCompactionWork writes what it keeps, in order, cut into pieces.
LEMMA MergedInPieces ==
  ASSUME NEW c, c.grandparents \in Seq(File), NEW v, NEW snapshot, NEW input \in Seq(Entry),
         \A i, j \in DOMAIN input : i < j => Less(input[i], input[j])
  PROVE  InPieces(MergeOutputs(v, c, snapshot, input), Kept(v, c, snapshot, input))
<1> DEFINE n == Len(input)
           T == MergeState(c)
           st0 == [done |-> <<>>, builder |-> {}, seen_key |-> FALSE,
                   grandparent_index |-> 1, overlapped_bytes |-> 0]
           G == [i \in 0 + 1 .. n |-> [st \in T |-> MergeStep(v, c, snapshot, input, i, st)]]
           Is(r) == r = [i \in 0 .. n |->
                           IF i = 0 THEN st0
                           ELSE With(r[i - 1], LAMBDA st : MergeStep(v, c, snapshot, input, i, st))]
           D(i) == Drop(v, c, snapshot, LastSequenceForKey(input, i), input[i])
           Up(m) == {input[i] : i \in {j \in 1 .. m : ~D(j)}}
<1>1. n \in Nat /\ DOMAIN input = 1 .. n /\ \A i \in 1 .. n : input[i] \in Entry
  OBVIOUS
<1>2. st0 \in T /\ st0.done = <<>> /\ st0.builder = {}
  BY DEF MergeState
<1>3. MergeOutputs(v, c, snapshot, input) = CloseOutput((CHOOSE r : Is(r))[n]).done
  BY DEF MergeOutputs
<1>4. ASSUME NEW r, NEW i
      PROVE  With(r[i - 1], LAMBDA st : MergeStep(v, c, snapshot, input, i, st))
               = MergeStep(v, c, snapshot, input, i, r[i - 1])
  BY DEF With
<1>5. ASSUME NEW i \in 1 .. n, NEW st \in T
      PROVE  /\ MergeStep(v, c, snapshot, input, i, st) \in T
             /\ \A P : Making(st, P) /\ (\A o \in P : Less(o, input[i])) =>
                  Making(MergeStep(v, c, snapshot, input, i, st), IF D(i) THEN P ELSE P \cup {input[i]})
  BY <1>1, OneRound
<1> HIDE DEF st0, T, n, D
<1>6. \E r : Is(r)
  <2>1. G \in [0 + 1 .. n -> [T -> T]]
    BY <1>5
  <2>2. PICK r \in [0 .. n -> T] : r[0] = st0 /\ \A i \in 0 + 1 .. n : r[i] = G[i][r[i - 1]]
    <3>1. 0 \in Int /\ n \in Int /\ 0 <= n /\ st0 \in T
      BY <1>1, <1>2
    <3> HIDE DEF G
    <3>2. Recursions(0, n, T, st0, G) # {}
      BY ONLY <2>1, <3>1, RecursionExists
    <3> QED BY <3>2 DEF Recursions
  <2>3. ASSUME NEW i \in 0 .. n
        PROVE  r[i] = IF i = 0 THEN st0
                      ELSE With(r[i - 1], LAMBDA st : MergeStep(v, c, snapshot, input, i, st))
    <3>1. CASE i = 0
      BY <2>2, <3>1
    <3>2. CASE i # 0
      <4>1. i \in 0 + 1 .. n /\ r[i - 1] \in T
        BY <1>1, <2>2, <3>2
      <4>2. r[i] = MergeStep(v, c, snapshot, input, i, r[i - 1])
        BY <2>2, <4>1
      <4> QED BY <1>4, <3>2, <4>2
    <3> QED BY <3>1, <3>2
  <2>4. r = [i \in 0 .. n |-> r[i]]
    BY <2>2
  <2>5. Is(r)
    BY <2>3, <2>4, Zenon
  <2> QED BY <2>5
<1> DEFINE r == CHOOSE r : Is(r)
<1>7. Is(r)
  <2> HIDE DEF Is
  <2> QED BY <1>6
<1>8. r[0] = st0 /\ \A i \in 1 .. n : r[i] = MergeStep(v, c, snapshot, input, i, r[i - 1])
  <2> HIDE DEF r
  <2>1. \A i \in 0 .. n : r[i] = IF i = 0 THEN st0
                      ELSE With(r[i - 1], LAMBDA st : MergeStep(v, c, snapshot, input, i, st))
    BY <1>7
  <2>2. 0 \in 0 .. n /\ \A i \in 1 .. n : i \in 0 .. n /\ i # 0
    BY <1>1
  <2> QED BY <1>4, <2>1, <2>2
<1>9. MergeOutputs(v, c, snapshot, input) = CloseOutput(r[n]).done
  BY <1>3
<1> HIDE DEF Is, r
<1> DEFINE I == {m \in Int : r[m] \in T /\ Making(r[m], Up(m))}
<1>10. 0 \in I
  <2>1. Up(0) = {}
    OBVIOUS
  <2>2. Making(st0, {})
    BY <1>2, FS_EmptySet DEF Making, Placed
  <2>3. r[0] \in T /\ Making(r[0], Up(0))
    <3> HIDE DEF Up
    <3> QED BY <1>2, <1>8, <2>1, <2>2
  <2> HIDE DEF Up
  <2> QED BY <2>3
<1>11. ASSUME NEW m \in 0 + 1 .. n, m - 1 \in I PROVE m \in I
  <2>1. m \in 1 .. n /\ m \in Int /\ r[m - 1] \in T /\ Making(r[m - 1], Up(m - 1))
    <3> HIDE DEF T, Up
    <3>1. r[m - 1] \in T /\ Making(r[m - 1], Up(m - 1))
      BY <1>11 DEF I
    <3>2. m \in 1 .. n /\ m \in Int
      BY <1>1, <1>11
    <3> QED BY <3>1, <3>2
  <2>2. \A o \in Up(m - 1) : Less(o, input[m])
    <3> SUFFICES ASSUME NEW i \in 1 .. m - 1 PROVE Less(input[i], input[m])
      OBVIOUS
    <3>1. i \in DOMAIN input /\ m \in DOMAIN input /\ i < m
      BY <1>1, <2>1
    <3> QED BY <3>1
  <2>3. Up(m) = IF D(m) THEN Up(m - 1) ELSE Up(m - 1) \cup {input[m]}
    <3>1. \A i \in 1 .. m : i = m \/ i \in 1 .. m - 1
      BY <2>1
    <3>2. 1 .. m - 1 \subseteq 1 .. m /\ m \in 1 .. m
      BY <2>1, <1>1
    <3> QED BY <3>1, <3>2
  <2> HIDE DEF Up
  <2>4. /\ MergeStep(v, c, snapshot, input, m, r[m - 1]) \in T
        /\ Making(MergeStep(v, c, snapshot, input, m, r[m - 1]),
                  IF D(m) THEN Up(m - 1) ELSE Up(m - 1) \cup {input[m]})
    BY <1>5, <2>1, <2>2
  <2> QED BY <1>8, <2>1, <2>3, <2>4
<1>12. r[n] \in T /\ Making(r[n], Up(n))
  <2> HIDE DEF I
  <2>1. 0 \in Int /\ n \in Int /\ n \in 0 .. n
    BY <1>1
  <2>2. 0 .. n \subseteq I
    BY <1>10, <1>11, <2>1, AllIndices
  <2>3. n \in I
    BY <2>1, <2>2
  <2> QED BY <2>3 DEF I
<1> DEFINE f == CloseOutput(r[n])
<1>13. f \in T /\ Making(f, Up(n)) /\ f.builder = {}
  BY <1>12, Closing DEF T
<1> HIDE DEF f, Up
<1>14. f.done \in Seq(SUBSET Entry)
  BY <1>13 DEF T, MergeState
<1>15. InPieces(f.done, Up(n))
  <2>1. IsFiniteSet(Up(n))
    BY <1>13 DEF Making
  <2>2. \A i \in DOMAIN f.done : IsFiniteSet(f.done[i])
    BY <1>13, <2>1, FS_Subset DEF Making
  <2>3. \A e \in Up(n) : \E i \in DOMAIN f.done : e \in f.done[i]
    BY <1>13 DEF Making, Placed
  <2> QED BY <1>13, <1>14, <2>2, <2>3 DEF Making, InPieces
<1>16. Up(n) = Kept(v, c, snapshot, input)
  BY <1>1 DEF Up, D, Kept
<1> QED BY <1>9, <1>15, <1>16 DEF f

\* The entries a merge reads, in order.
MergeInput(c) == Sorted(UNION {f.entries : f \in FilesOf(c.inputs0 \o c.inputs1)}, Less)

\* MakeInputIterator yields the entries of all inputs in order.
LEMMA InputInOrder ==
  ASSUME NEW c, c.inputs0 \in Seq(File), c.inputs1 \in Seq(File)
  PROVE  /\ MergeInput(c) \in Seq(Entry)
         /\ \A i, j \in DOMAIN MergeInput(c) : i < j => Less(MergeInput(c)[i], MergeInput(c)[j])
         /\ {MergeInput(c)[i] : i \in DOMAIN MergeInput(c)}
              = UNION {f.entries : f \in FilesOf(c.inputs0) \cup FilesOf(c.inputs1)}
<1> DEFINE F == FilesOf(c.inputs0 \o c.inputs1)
           S == UNION {f.entries : f \in F}
           input == Sorted(S, Less)
           R == {p \in S \X S : Less(p[1], p[2])}
<1>1. F = FilesOf(c.inputs0) \cup FilesOf(c.inputs1) /\ F \subseteq File /\ IsFiniteSet(F)
  <2>1. c.inputs0 \o c.inputs1 \in Seq(File) /\ F = FilesOf(c.inputs0) \cup FilesOf(c.inputs1)
    BY FilesOfBoth
  <2> DEFINE l == c.inputs0 \o c.inputs1
  <2>2. l \in Seq(File)
    BY <2>1
  <2> HIDE DEF l
  <2>3. IsFiniteSet(FilesOf(l)) /\ FilesOf(l) \subseteq File
    BY <2>2, FilesAreFinite
  <2> QED BY <2>1, <2>3 DEF l
<1>2. MergeInput(c) = input
  BY DEF MergeInput
<1>3. IsFiniteSet(S) /\ S \subseteq Entry
  <2> DEFINE Q == {f.entries : f \in F}
             g == [f \in F |-> f.entries]
  <2>1. g \in Surjection(F, Q)
    BY DEF Surjection
  <2>2. IsFiniteSet(Q)
    <3> HIDE DEF F, Q, g
    <3> QED BY <1>1, <2>1, FS_Surjection
  <2>3. \A x \in Q : IsFiniteSet(x) /\ x \subseteq Entry
    BY <1>1 DEF File, FileRecord
  <2> HIDE DEF Q
  <2>4. IsFiniteSet(UNION Q)
    BY <2>2, <2>3, FS_UNION
  <2> QED BY <2>3, <2>4 DEF Q
<1> HIDE DEF F, S
<1>4. Enumerates(input, S, R)
  <2>1. S \in SUBSET IKey
    BY <1>3, EntriesAreKeys
  <2>2. Orders(R, S)
    BY <2>1, EntriesOrdered
  <2> QED BY <1>3, <2>2, SortedEntries
<1>5. \A x, y \in S : <<x, y>> \in R => Less(x, y)
  OBVIOUS
<1> HIDE DEF R, input
<1>6. /\ input \in Seq(Entry)
      /\ \A i, j \in DOMAIN input : i < j => Less(input[i], input[j])
      /\ {input[i] : i \in DOMAIN input} = S
  <2>1. input \in Seq(S) /\ \A i \in DOMAIN input : input[i] \in S
    BY <1>4 DEF Enumerates
  <2>2. \A i, j \in DOMAIN input : i < j => Less(input[i], input[j])
    BY <1>4, <1>5, <2>1 DEF Enumerates
  <2>3. {input[i] : i \in DOMAIN input} = S
    BY <1>4, <2>1 DEF Enumerates
  <2> QED BY <1>3, <2>1, <2>2, <2>3
<1> QED BY <1>1, <1>2, <1>6 DEF S

\* A merge leaves entries of its inputs only, in outputs one after the other.
LEMMA OutputsInPieces ==
  ASSUME NEW c, c.inputs0 \in Seq(File), c.inputs1 \in Seq(File), c.grandparents \in Seq(File),
         NEW v, NEW snapshot
  PROVE  /\ InPieces(CompactionOutputs(v, c, snapshot), Kept(v, c, snapshot, MergeInput(c)))
         /\ Kept(v, c, snapshot, MergeInput(c))
              \subseteq UNION {f.entries : f \in FilesOf(c.inputs0) \cup FilesOf(c.inputs1)}
<1> DEFINE A(x) == MergeOutputs(v, c, snapshot, x)
           input == MergeInput(c)
<1>1. CompactionOutputs(v, c, snapshot) = A(input)
  <2>1. CompactionOutputs(v, c, snapshot) = CHOOSE r \in {A(x) : x \in {input}} : TRUE
    BY DEF CompactionOutputs, With, MergeInput
  <2> HIDE DEF A, input
  <2> QED BY <2>1
<1>2. /\ input \in Seq(Entry)
      /\ \A i, j \in DOMAIN input : i < j => Less(input[i], input[j])
      /\ {input[i] : i \in DOMAIN input} = UNION {f.entries : f \in FilesOf(c.inputs0) \cup FilesOf(c.inputs1)}
  BY InputInOrder
<1> HIDE DEF input
<1>3. InPieces(A(input), Kept(v, c, snapshot, input))
  BY <1>2, MergedInPieces
<1>4. Kept(v, c, snapshot, input) \subseteq {input[i] : i \in DOMAIN input}
  BY DEF Kept
<1> QED BY <1>1, <1>2, <1>3, <1>4 DEF input

\* An entry behind another one of its key is dropped, when every reader can see
\* the other.
LEMMA OlderIsDropped ==
  ASSUME NEW c, NEW v, NEW snapshot \in Nat, NEW input \in Seq(Entry),
         \A i, j \in DOMAIN input : i < j => Less(input[i], input[j]),
         \A i \in DOMAIN input : input[i].seq <= snapshot,
         NEW i \in DOMAIN input, NEW j \in DOMAIN input, i < j, input[i].key = input[j].key
  PROVE  Drop(v, c, snapshot, LastSequenceForKey(input, j), input[j])
<1>1. /\ DOMAIN input = 1 .. Len(input) /\ Len(input) \in Nat /\ j > 1 /\ j - 1 \in DOMAIN input
      /\ i <= j - 1 /\ j - 1 < j /\ i \in Int /\ j \in Int
  OBVIOUS
<1>2. \A k \in DOMAIN input : input[k] \in Entry
  OBVIOUS
<1> DEFINE a == input[i]  b == input[j - 1]  d == input[j]
<1>3. a \in IKey /\ b \in IKey /\ d \in IKey
  BY <1>1, <1>2, EntriesAreKeys
<1>4. Less(b, d) /\ (a = b \/ Less(a, b))
  <2>1. CASE i = j - 1
    BY <1>1, <2>1
  <2>2. CASE i # j - 1
    BY <1>1, <2>2
  <2> QED BY <2>1, <2>2
<1>5. a.key <= b.key /\ b.key <= d.key /\ a.key = d.key
  <2>1. a.key = d.key
    OBVIOUS
  <2> HIDE DEF a, b, d
  <2> QED BY <1>3, <1>4, <2>1, KeyOrder DEF LessEq
<1>6. b.key = d.key
  <2> HIDE DEF a, b, d
  <2> QED BY <1>3, <1>5 DEF IKey
<1>7. LastSequenceForKey(input, j) = b.seq
  BY <1>1, <1>6 DEF LastSequenceForKey
<1>8. b.seq <= snapshot
  BY <1>1
<1> QED BY <1>7, <1>8 DEF Drop

\* When every entry can be seen by every reader, one entry of a key is kept.
LEMMA OneOfAKey ==
  ASSUME NEW c, NEW v, NEW snapshot \in Nat, NEW input \in Seq(Entry),
         \A i, j \in DOMAIN input : i < j => Less(input[i], input[j]),
         \A i \in DOMAIN input : input[i].seq <= snapshot
  PROVE  \A e, o \in Kept(v, c, snapshot, input) : e.key = o.key => e = o
<1> DEFINE D(i) == Drop(v, c, snapshot, LastSequenceForKey(input, i), input[i])
<1>1. ASSUME NEW i \in DOMAIN input, NEW j \in DOMAIN input, i < j, input[i].key = input[j].key
      PROVE  D(j)
  BY <1>1, OlderIsDropped
<1> HIDE DEF D
<1> SUFFICES ASSUME NEW i \in DOMAIN input, NEW j \in DOMAIN input, ~D(i), ~D(j),
                    input[i].key = input[j].key
             PROVE  input[i] = input[j]
  BY DEF Kept, D
<1>2. i \in Int /\ j \in Int
  OBVIOUS
<1>3. ~(i < j) /\ ~(j < i)
  BY <1>1
<1>4. i = j
  BY <1>2, <1>3
<1> QED BY <1>4

-----------------------------------------------------------------------------
(* The files a lookup opens                                                *)

AllFiles(v) == UNION {FilesOf(v[level]) : level \in Levels}

\* A version: sorted levels of files with numbers of their own.
Version(v) ==
  /\ v \in [Levels -> Seq(File)]
  /\ \A level \in Levels \ {0} : InOrder(v[level])
  /\ \A f, g \in AllFiles(v) : f.number = g.number => f = g

\* Version::Get looks into files of the level, above level 0 into one at most; in
\* level 0 into all with the key in their range, the newest first.
LEMMA SearchedFiles ==
  ASSUME NEW v, Version(v), NEW level \in Levels, NEW ikey \in IKey
  PROVE  /\ FilesToSearch(v, level, ikey) \in Seq(File)
         /\ FilesOf(FilesToSearch(v, level, ikey)) \subseteq FilesOf(v[level])
         /\ level # 0 => Len(FilesToSearch(v, level, ikey)) <= 1
         /\ level = 0 =>
              /\ \A f \in FilesOf(v[0]) : f.smallest.key <= ikey.key /\ ikey.key <= f.largest.key
                                             => f \in FilesOf(FilesToSearch(v, 0, ikey))
              /\ \A i, j \in DOMAIN FilesToSearch(v, 0, ikey) : i < j =>
                   FilesToSearch(v, 0, ikey)[i].number > FilesToSearch(v, 0, ikey)[j].number
<1> DEFINE list == FilesToSearch(v, level, ikey)
<1>1. /\ v[level] \in Seq(File) /\ FilesOf(v[level]) \subseteq File /\ IsFiniteSet(FilesOf(v[level]))
      /\ level # 0 => InOrder(v[level])
  BY FilesAreFinite DEF Version
<1>2. CASE level = 0
  <2> DEFINE S == {f \in FilesOf(v[0]) : ikey.key >= f.smallest.key /\ ikey.key <= f.largest.key}
             R == {p \in S \X S : NewestFirst(p[1], p[2])}
  <2>1. list = Sorted(S, NewestFirst)
    BY <1>2 DEF FilesToSearch
  <2>2. IsFiniteSet(S) /\ S \subseteq FilesOf(v[level]) /\ S \subseteq File
    BY <1>1, <1>2, FS_Subset
  <2>3. \A f, g \in S : <<f, g>> \in R <=> f.number > g.number
    BY DEF NewestFirst
  <2>4. \A f, g \in S : f # g => f.number # g.number
    BY <2>2 DEF Version, AllFiles
  <2>5. \A f \in S : f.number \in Nat
    BY <2>2, FileBounds
  <2>6. Orders(R, S)
    <3> HIDE DEF R, S
    <3> QED BY <2>3, <2>4, <2>5 DEF Orders
  <2>7. Enumerates(Sorted(S, NewestFirst), S, R)
    <3> HIDE DEF S
    <3> QED BY <2>2, <2>6, SortedNewest
  <2> HIDE DEF S, R
  <2>8. list \in Seq(S) /\ FilesOf(list) = S
    BY <2>1, <2>7 DEF Enumerates, FilesOf
  <2>9. list \in Seq(File)
    BY <2>2, <2>8
  <2>10. \A f \in FilesOf(v[0]) : f.smallest.key <= ikey.key /\ ikey.key <= f.largest.key
                                  => f \in FilesOf(list)
    <3>1. \A f \in FilesOf(v[0]) : f.smallest.key \in Int /\ f.largest.key \in Int
      BY <1>1, <1>2, FileBounds
    <3>2. ikey.key \in Int
      BY DEF IKey
    <3>3. \A f \in FilesOf(v[0]) : f.smallest.key <= ikey.key /\ ikey.key <= f.largest.key => f \in S
      BY <3>1, <3>2 DEF S
    <3> QED BY <2>8, <3>3
  <2>11. \A i, j \in DOMAIN list : i < j => list[i].number > list[j].number
    BY <2>1, <2>3, <2>7 DEF Enumerates
  <2> QED BY <1>2, <2>2, <2>8, <2>9, <2>10, <2>11
<1>3. CASE level # 0
  <2> DEFINE files == v[level]
             index == FindFile(files, ikey)
  <2>1. list = IF index > Len(files) \/ ikey.key < files[index].smallest.key THEN <<>> ELSE <<files[index]>>
    BY <1>3 DEF FilesToSearch
  <2>2. index \in 1 .. Len(files) + 1 /\ DOMAIN files = 1 .. Len(files) /\ Len(files) \in Nat
    BY <1>1, <1>3, FindsFile
  <2> SUFFICES list \in Seq(File) /\ FilesOf(list) \subseteq FilesOf(files) /\ Len(list) <= 1
    BY <1>3
  <2> HIDE DEF index, list
  <2>3. CASE list = <<>>
    <3>1. FilesOf(<<>>) = {} /\ Len(<<>>) <= 1 /\ <<>> \in Seq(File)
      BY DEF FilesOf
    <3> QED BY <2>3, <3>1 DEF list
  <2>4. CASE list # <<>>
    <3>1. list = <<files[index]>> /\ index \in DOMAIN files
      BY <2>1, <2>2, <2>4
    <3>2. files[index] \in FilesOf(files) /\ files[index] \in File
      BY <1>1, <3>1 DEF FilesOf
    <3>3. FilesOf(<<files[index]>>) = {files[index]} /\ Len(<<files[index]>>) = 1
      BY DEF FilesOf
    <3>4. list \in Seq(File) /\ FilesOf(list) \subseteq FilesOf(files) /\ Len(list) <= 1
      BY <3>1, <3>2, <3>3
    <3> QED BY <3>4 DEF list
  <2> QED BY <2>3, <2>4
<1> QED BY <1>2, <1>3

Probes(v) == {p \in [level : Levels, file : File] : p.file \in FilesOf(v[p.level])}

\* The probes of one level.
ProbesIn(v, level, ikey) ==
  [i \in DOMAIN FilesToSearch(v, level, ikey) |->
     [level |-> level, file |-> FilesToSearch(v, level, ikey)[i]]]

\* Level by level, the probes up to it.
LevelByLevel(v, ikey, u) ==
  /\ u[-1] = <<>>
  /\ \A l \in Levels : u[l] = u[l - 1] \o ProbesIn(v, l, ikey)

\* The files that FilesToSearch yields become probes of their level.
LEMMA ProbesOfALevel ==
  ASSUME NEW v, Version(v), NEW ikey \in IKey, NEW level \in Levels
  PROVE  /\ ProbesIn(v, level, ikey) \in Seq(Probes(v))
         /\ \A i \in DOMAIN ProbesIn(v, level, ikey) : ProbesIn(v, level, ikey)[i].level = level
         /\ level # 0 => Len(ProbesIn(v, level, ikey)) <= 1
<1> DEFINE X == ProbesIn(v, level, ikey)
           T == Probes(v)
           files == FilesToSearch(v, level, ikey)
<1>1. files \in Seq(File) /\ FilesOf(files) \subseteq FilesOf(v[level]) /\ (level # 0 => Len(files) <= 1)
  BY SearchedFiles
<1> HIDE DEF files
<1>2. \A i \in DOMAIN files : files[i] \in FilesOf(v[level]) /\ files[i] \in File
  <2>1. \A i \in DOMAIN files : files[i] \in FilesOf(files)
    BY DEF FilesOf
  <2>2. \A f \in FilesOf(v[level]) : f \in File
    BY FilesAreFinite DEF Version
  <2> QED BY <1>1, <2>1, <2>2
<1>3. \A i \in DOMAIN files : [level |-> level, file |-> files[i]] \in T
  BY <1>2 DEF Probes
<1>4. X = [i \in DOMAIN files |-> [level |-> level, file |-> files[i]]]
  BY DEF files, ProbesIn
<1>5. DOMAIN files = 1 .. Len(files) /\ Len(files) \in Nat
  BY <1>1
<1> HIDE DEF X, T
<1>6. X \in Seq(T) /\ Len(X) = Len(files)
  BY <1>3, <1>4, <1>5
<1>7. \A i \in DOMAIN X : X[i].level = level
  BY <1>4
<1> QED BY <1>1, <1>6, <1>7 DEF X, T

\* ForEachOverlapping: the recursive function is there, and puts the probes of
\* the levels one after another.
LEMMA ProbesLevelByLevel ==
  ASSUME NEW v, Version(v), NEW ikey \in IKey
  PROVE  \E u : LevelByLevel(v, ikey, u) /\ ForEachOverlapping(v, ikey) = u[kNumLevels - 1]
<1> DEFINE n == kNumLevels - 1
           T == Probes(v)
           X(level) == ProbesIn(v, level, ikey)
           W(level) == With(FilesToSearch(v, level, ikey), LAMBDA files :
                              [i \in DOMAIN files |-> [level |-> level, file |-> files[i]]])
           b == -1
           G == [l \in b + 1 .. n |-> [s \in Seq(T) |-> s \o X(l)]]
           Is(u) == u = [level \in b .. n |-> IF level = b THEN <<>> ELSE u[level - 1] \o W(level)]
<1>1. n \in Nat \ {0} /\ Levels = 0 .. n /\ b + 1 = 0 /\ b \in Int /\ n \in Int /\ b <= n
  BY LevelsAssumption DEF Levels
<1>2. ASSUME NEW level \in Levels PROVE X(level) \in Seq(T) /\ W(level) = X(level)
  <2>1. W(level) = X(level)
    BY DEF With, ProbesIn
  <2> QED BY <2>1, ProbesOfALevel
<1>3. ForEachOverlapping(v, ikey) = (CHOOSE u : Is(u))[n]
  BY DEF ForEachOverlapping
<1> HIDE DEF X, W, n, T, b
<1>4. \E u : Is(u)
  <2>1. G \in [b + 1 .. n -> [Seq(T) -> Seq(T)]]
    <3> SUFFICES ASSUME NEW l \in b + 1 .. n, NEW s \in Seq(T) PROVE s \o X(l) \in Seq(T)
      OBVIOUS
    <3>1. X(l) \in Seq(T)
      BY <1>1, <1>2
    <3> QED BY <3>1
  <2>2. <<>> \in Seq(T)
    OBVIOUS
  <2>3. PICK u \in [b .. n -> Seq(T)] : u[b] = <<>> /\ \A l \in b + 1 .. n : u[l] = G[l][u[l - 1]]
    <3> HIDE DEF G
    <3> DEFINE S == Seq(T)
               a == <<>>
    <3>1. G \in [b + 1 .. n -> [S -> S]] /\ a \in S /\ b \in Int /\ n \in Int /\ b <= n
      BY <1>1, <2>1, <2>2
    <3> HIDE DEF S, a
    <3>2. Recursions(b, n, S, a, G) # {}
      BY ONLY <3>1, RecursionExists
    <3> QED BY <3>2 DEF Recursions, S, a
  <2>4. ASSUME NEW l \in b .. n PROVE u[l] = IF l = b THEN <<>> ELSE u[l - 1] \o W(l)
    <3>1. CASE l = b
      BY <2>3, <3>1
    <3>2. CASE l # b
      <4>1. l \in b + 1 .. n /\ l - 1 \in b .. n /\ l \in Levels
        BY <1>1, <3>2
      <4>2. u[l] = u[l - 1] \o X(l)
        BY <2>3, <4>1
      <4> QED BY <1>2, <3>2, <4>1, <4>2
    <3> QED BY <3>1, <3>2
  <2>5. u = [l \in b .. n |-> u[l]]
    BY <2>3
  <2>6. Is(u)
    BY <2>4, <2>5, Zenon
  <2> QED BY <2>6
<1> DEFINE u == CHOOSE u : Is(u)
<1>5. Is(u)
  <2> HIDE DEF Is
  <2> QED BY <1>4
<1>6. u[b] = <<>> /\ \A l \in 0 .. n : u[l] = u[l - 1] \o X(l)
  <2> HIDE DEF u
  <2>1. \A l \in b .. n : u[l] = IF l = b THEN <<>> ELSE u[l - 1] \o W(l)
    BY <1>5
  <2>2. b \in b .. n /\ \A l \in 0 .. n : l \in b .. n /\ l # b /\ l \in Levels
    BY <1>1 DEF b
  <2> QED BY <1>2, <2>1, <2>2
<1>7. ForEachOverlapping(v, ikey) = u[n]
  BY <1>3
<1>8. LevelByLevel(v, ikey, u)
  <2> HIDE DEF u
  <2> QED BY <1>1, <1>6 DEF LevelByLevel, X, b
<1> HIDE DEF u
<1> QED BY <1>7, <1>8 DEF n

\* ForEachOverlapping probes files of the version; with a second one there is a
\* first to be charged.
LEMMA OverlappingProbes ==
  ASSUME NEW v, Version(v), NEW ikey \in IKey
  PROVE  /\ ForEachOverlapping(v, ikey) \in Seq(Probes(v))
         /\ Len(ForEachOverlapping(v, ikey)) >= 2 => Charged(v, ForEachOverlapping(v, ikey)[1])
<1> DEFINE n == kNumLevels - 1
           T == Probes(v)
           X(level) == ProbesIn(v, level, ikey)
           b == -1
<1>1. n \in Nat \ {0} /\ Levels = 0 .. n /\ b + 1 = 0 /\ b \in Int /\ n \in Int /\ b <= n
  BY LevelsAssumption DEF Levels
<1>2. ASSUME NEW level \in Levels
      PROVE  /\ X(level) \in Seq(T)
             /\ \A i \in DOMAIN X(level) : X(level)[i].level = level
             /\ level # 0 => Len(X(level)) <= 1
  BY ProbesOfALevel
<1>3. PICK u : LevelByLevel(v, ikey, u) /\ ForEachOverlapping(v, ikey) = u[n]
  BY ProbesLevelByLevel
<1>6. u[b] = <<>> /\ \A l \in 0 .. n : u[l] = u[l - 1] \o X(l)
  BY <1>1, <1>3 DEF LevelByLevel
<1> HIDE DEF X, n, T, b
<1>7. ForEachOverlapping(v, ikey) = u[n]
  BY <1>3 DEF n
<1> DEFINE I == {l \in Int : u[l] \in Seq(T) /\ \A i \in DOMAIN u[l] : u[l][i].level <= l}
<1>8. b \in I
  <2>1. <<>> \in Seq(T) /\ DOMAIN <<>> = {}
    OBVIOUS
  <2> QED BY <1>1, <1>6, <2>1
<1>9. ASSUME NEW l \in b + 1 .. n, l - 1 \in I PROVE l \in I
  <2>1. l \in Levels /\ l \in Int /\ l \in 0 .. n
    BY <1>1
  <2>2. u[l] = u[l - 1] \o X(l)
    BY <1>6, <2>1
  <2>3. u[l - 1] \in Seq(T) /\ \A i \in DOMAIN u[l - 1] : u[l - 1][i].level <= l - 1
    BY <1>9
  <2>4. X(l) \in Seq(T) /\ \A i \in DOMAIN X(l) : X(l)[i].level = l
    BY <1>2, <2>1
  <2> DEFINE s == u[l - 1]
             x == X(l)
  <2>5. u[l] = s \o x /\ s \in Seq(T) /\ x \in Seq(T)
    BY <2>2, <2>3, <2>4
  <2>6. \A p \in T : p.level \in Int
    BY <1>1 DEF T, Probes
  <2>7. ASSUME NEW i \in DOMAIN (s \o x) PROVE (s \o x)[i].level <= l
    <3>1. CASE i \in DOMAIN s
      <4>1. (s \o x)[i] = s[i] /\ s[i] \in T
        BY <2>5, <3>1
      <4>2. s[i].level <= l - 1 /\ s[i].level \in Int
        BY <2>3, <2>6, <3>1, <4>1
      <4> HIDE DEF s, x
      <4> QED BY <2>1, <4>1, <4>2
    <3>2. CASE i \notin DOMAIN s
      <4> DEFINE j == i - Len(s)
      <4>1. j \in DOMAIN x /\ (s \o x)[i] = x[j]
        <5> HIDE DEF s, x
        <5> QED BY <2>5, <3>2
      <4> QED BY <2>1, <2>4, <4>1
    <3> QED BY <3>1, <3>2
  <2>8. s \o x \in Seq(T)
    BY <2>5
  <2> QED BY <2>1, <2>5, <2>7, <2>8
<1>10. ASSUME NEW l \in b .. n
       PROVE  u[l] \in Seq(T) /\ \A i \in DOMAIN u[l] : u[l][i].level <= l
  <2> HIDE DEF I
  <2>1. b .. n \subseteq I
    BY <1>1, <1>8, <1>9, AllIndices
  <2>2. l \in I
    BY <2>1
  <2> QED BY <2>2 DEF I
<1>11. ASSUME Len(u[n]) >= 2 PROVE Charged(v, u[n][1])
  <2>1. n \in 0 .. n /\ n \in Levels /\ n # 0 /\ n \in b .. n /\ n - 1 \in b .. n
    BY <1>1 DEF b
  <2> DEFINE s == u[n - 1]
             x == X(n)
  <2>2. u[n] = s \o x /\ s \in Seq(T) /\ x \in Seq(T) /\ Len(x) <= 1
    BY <1>2, <1>6, <1>10, <2>1
  <2>3. \A i \in DOMAIN s : s[i].level <= n - 1
    BY <1>10, <2>1
  <2>4. 1 \in DOMAIN s /\ (s \o x)[1] = s[1] /\ s[1] \in T
    <3> HIDE DEF s, x
    <3> QED BY <1>11, <2>2
  <2> DEFINE p == s[1]
  <2>5. p.level <= n - 1 /\ p.level \in 0 .. n /\ p.file \in FilesOf(v[p.level])
    BY <1>1, <2>3, <2>4 DEF T, Probes
  <2>6. u[n][1] = p
    BY <2>2, <2>4
  <2> HIDE DEF p
  <2>7. p.level \in 0 .. kNumLevels - 2
    BY <1>1, <2>5, LevelsAssumption DEF n
  <2> QED BY <2>5, <2>6, <2>7 DEF Charged
<1>12. u[n] \in Seq(T)
  <2>1. n \in b .. n
    BY <1>1
  <2> QED BY <1>10, <2>1
<1> QED BY <1>7, <1>11, <1>12 DEF T

\* Whatever a lookup or a sample charges is a file with a level below it.
LEMMA SeeksAreCharged ==
  ASSUME NEW v, Version(v), NEW ikey \in IKey
  PROVE  Charged(v, VersionGet(v, ikey).seek_file) /\ Charged(v, ReadSampleFile(v, ikey))
<1> DEFINE probes == ForEachOverlapping(v, ikey)
           A(p) == GetAnswer(p, ikey)
           B(p) == IF Len(p) >= 2 THEN p[1] ELSE NULL
<1>1. VersionGet(v, ikey) = A(probes)
  <2>1. VersionGet(v, ikey) = CHOOSE r \in {A(p) : p \in {probes}} : TRUE
    BY DEF VersionGet, With
  <2> HIDE DEF A, probes
  <2> QED BY <2>1
<1>2. ReadSampleFile(v, ikey) = B(probes)
  <2>1. ReadSampleFile(v, ikey) = CHOOSE r \in {B(p) : p \in {probes}} : TRUE
    BY DEF ReadSampleFile, With
  <2> HIDE DEF B, probes
  <2> QED BY <2>1
<1>3. Len(probes) >= 2 => Charged(v, probes[1])
  BY OverlappingProbes
<1> HIDE DEF probes
<1>4. A(probes).seek_file = NULL \/ (Len(probes) >= 2 /\ A(probes).seek_file = probes[1])
  BY DEF GetAnswer
<1>5. Charged(v, NULL)
  BY DEF Charged
<1> HIDE DEF A
<1> QED BY <1>1, <1>2, <1>3, <1>4, <1>5

-----------------------------------------------------------------------------
(* What an edit makes of a version                                         *)

\* Files of a level above 0 are apart.
LEMMA FilesOfALevel ==
  ASSUME NEW files \in Seq(File), InOrder(files)
  PROVE  \A f, g \in FilesOf(files) : f # g => Apart(f, g)
<1> SUFFICES ASSUME NEW i \in DOMAIN files, NEW j \in DOMAIN files, files[i] # files[j]
             PROVE  Apart(files[i], files[j])
  BY DEF FilesOf
<1>1. DOMAIN files = 1 .. Len(files) /\ Len(files) \in Nat
  OBVIOUS
<1>2. i < j \/ j < i
  BY <1>1
<1> QED BY <1>2 DEF InOrder, Apart

\* LogAndApply: the edited version is a version, if the files of a level above 0
\* are apart.
LEMMA EditedVersion ==
  ASSUME NEW v, Version(v), NEW deleted, NEW added \in SUBSET (Levels \X File),
         IsFiniteSet(added),
         \A a, b \in added : a[2].number = b[2].number => a[2] = b[2],
         \A a \in added, f \in AllFiles(v) : f.number = a[2].number => f = a[2],
         \A level \in Levels \ {0} : \A f, g \in After(v, level, deleted, added) :
           f # g => Apart(f, g)
  PROVE  /\ Version(ApplyEdit(v, deleted, added))
         /\ \A level \in Levels :
              FilesOf(ApplyEdit(v, deleted, added)[level]) = After(v, level, deleted, added)
         /\ AllFiles(ApplyEdit(v, deleted, added)) \subseteq AllFiles(v) \cup {a[2] : a \in added}
<1> DEFINE w == ApplyEdit(v, deleted, added)
           A(level) == After(v, level, deleted, added)
<1>1. v \in [Levels -> Seq(File)]
  BY DEF Version
<1>2. ASSUME NEW level \in Levels
      PROVE  /\ A(level) \in SUBSET File /\ IsFiniteSet(A(level))
             /\ A(level) \subseteq AllFiles(v) \cup {a[2] : a \in added}
             /\ \A f, g \in A(level) : f.number = g.number => f = g
  <2>1. v[level] \in Seq(File) /\ FilesOf(v[level]) \subseteq AllFiles(v)
    BY <1>1 DEF AllFiles
  <2>2. IsFiniteSet(FilesOf(v[level])) /\ FilesOf(v[level]) \subseteq File
    BY <2>1, FilesAreFinite
  <2>3. IsFiniteSet({a[2] : a \in added})
    <3> DEFINE F == [a \in added |-> a[2]]
    <3>1. F \in Surjection(added, {a[2] : a \in added})
      BY DEF Surjection
    <3> QED BY <3>1, FS_Surjection
  <2>4. A(level) \subseteq FilesOf(v[level]) \cup {a[2] : a \in added}
    BY DEF After
  <2>5. {a[2] : a \in added} \subseteq File
    OBVIOUS
  <2>6. IsFiniteSet(A(level))
    <3> HIDE DEF A
    <3> QED BY <2>2, <2>3, <2>4, FS_Union, FS_Subset
  <2>7. ASSUME NEW f \in A(level), NEW g \in A(level), f.number = g.number PROVE f = g
    <3>1. (f \in AllFiles(v) \/ \E a \in added : f = a[2]) /\ (g \in AllFiles(v) \/ \E a \in added : g = a[2])
      BY <2>1, <2>4
    <3> HIDE DEF A
    <3>2. \A x, y \in AllFiles(v) : x.number = y.number => x = y
      BY DEF Version
    <3> QED BY <2>7, <3>1, <3>2
  <2> HIDE DEF A
  <2> QED BY <2>1, <2>2, <2>4, <2>5, <2>6, <2>7
<1>3. ASSUME NEW level \in Levels
      PROVE  /\ w[level] \in Seq(File) /\ FilesOf(w[level]) = A(level)
             /\ (\A f, g \in A(level) : f # g => Apart(f, g)) => InOrder(w[level])
  BY <1>2, EditedLevel
<1>4. w = [level \in Levels |-> w[level]]
  BY DEF ApplyEdit
<1> HIDE DEF w
<1>5. w \in [Levels -> Seq(File)]
  BY <1>3, <1>4
<1>6. \A level \in Levels \ {0} : InOrder(w[level])
  BY <1>3
<1>7. AllFiles(w) \subseteq AllFiles(v) \cup {a[2] : a \in added}
  <2> HIDE DEF A
  <2> QED BY <1>2, <1>3 DEF AllFiles
<1>8. ASSUME NEW f \in AllFiles(w), NEW g \in AllFiles(w), f.number = g.number PROVE f = g
  <2>1. \A x, y \in AllFiles(v) : x.number = y.number => x = y
    BY DEF Version
  <2> QED BY <1>7, <1>8, <2>1
<1> QED BY <1>3, <1>5, <1>6, <1>7, <1>8 DEF w, Version

-----------------------------------------------------------------------------
(* The invariant of the levels                                             *)

InputFiles(c) == FilesOf(c.inputs0) \cup FilesOf(c.inputs1)
InputEntries(c) == UNION {f.entries : f \in InputFiles(c)}
Made(m) == {o[2] : o \in m.outputs}

\* The file g lies on one side of all files in F.
Beside(g, F) ==
  \/ \A f \in F : Less(g.largest, f.smallest)
  \/ \A f \in F : Less(f.largest, g.smallest)

\* g is on one side of all files in F even by user keys.
KeysBeside(g, F) ==
  \/ \A f \in F : g.largest.key < f.smallest.key
  \/ \A f \in F : f.largest.key < g.smallest.key

\* Every file has a number that was given out.
Numbered(v, n) == \A f \in AllFiles(v) : f.number < n

\* The inputs of the merge m are still in the version v; what else the level
\* below has got meanwhile is beside them.
InputsStand(v, c) ==
  /\ c.level \in 0 .. kNumLevels - 2
  /\ c.inputs0 \in Seq(File) /\ c.inputs1 \in Seq(File)
  /\ FilesOf(c.inputs0) \subseteq FilesOf(v[c.level])
  /\ FilesOf(c.inputs1) \subseteq FilesOf(v[c.level + 1])
  /\ Gapless(InputFiles(c))
  /\ \A g \in FilesOf(v[c.level + 1]) \ FilesOf(c.inputs1) : Beside(g, InputFiles(c))

\* The outputs of the merge m have numbers of their own and are apart.
OutputsStand(v, n, m) ==
  /\ m.outputs \in SUBSET ({m.c.level + 1} \X File) /\ IsFiniteSet(m.outputs)
  /\ \A f \in Made(m) : f.entries \subseteq InputEntries(m.c) /\ f.number < n
  /\ \A f \in Made(m), g \in AllFiles(v) : g.number # f.number
  /\ \A f, g \in Made(m) : f # g => f.number # g.number /\ Apart(f, g)

MergeStands(v, n, m) == ~m.is_manual /\ InputsStand(v, m.c) /\ OutputsStand(v, n, m)

ClientsInv ==
  /\ history \in Seq([key : Keys, type : {kTypeDeletion, kTypeValue}])
  /\ Len(history) <= MaxWrites
  /\ mem \in SUBSET Entry /\ IsFiniteSet(mem)
  /\ imm # NULL => imm \in SUBSET Entry /\ IsFiniteSet(imm)
  /\ snapshots \subseteq Nat
  /\ manual = NULL /\ range = NULL /\ calls = 0

VersionInv ==
  /\ Version(version)
  /\ next_file \in Nat /\ Numbered(version, next_file)
  /\ Charged(version, file_to_compact)

CompactionInv == compaction # NULL => MergeStands(version, next_file, compaction)

LevelsInv == ClientsInv /\ VersionInv /\ CompactionInv

-----------------------------------------------------------------------------
(* A flush                                                                 *)

\* A compaction is from a level that has a next one.
LEMMA MergeLevels ==
  ASSUME NEW v, NEW c, InputsStand(v, c)
  PROVE  c.level \in Levels /\ c.level + 1 \in Levels /\ c.level \in 0 .. kNumLevels - 2
<1>1. c.level \in 0 .. kNumLevels - 2
  BY DEF InputsStand
<1>2. kNumLevels \in Nat
  BY LevelsAssumption
<1> QED BY <1>1, <1>2 DEF Levels

\* A merge that runs does not mind files that come beside its inputs.
LEMMA MergeStillStands ==
  ASSUME NEW v, NEW w, NEW n \in Nat, NEW k \in Nat, n <= k, NEW m, MergeStands(v, n, m),
         Version(v),
         \A level \in Levels : FilesOf(v[level]) \subseteq FilesOf(w[level]),
         \A g \in FilesOf(w[m.c.level + 1]) \ FilesOf(v[m.c.level + 1]) : Beside(g, InputFiles(m.c)),
         \A g \in AllFiles(w) \ AllFiles(v), f \in Made(m) : g.number # f.number
  PROVE  MergeStands(w, k, m)
<1>1. m.c.level \in Levels /\ m.c.level + 1 \in Levels
  BY MergeLevels DEF MergeStands
<1>2. InputsStand(w, m.c)
  <2>1. FilesOf(m.c.inputs0) \subseteq FilesOf(w[m.c.level])
    BY <1>1 DEF MergeStands, InputsStand
  <2>2. FilesOf(m.c.inputs1) \subseteq FilesOf(w[m.c.level + 1])
    BY <1>1 DEF MergeStands, InputsStand
  <2>3. \A g \in FilesOf(w[m.c.level + 1]) \ FilesOf(m.c.inputs1) : Beside(g, InputFiles(m.c))
    BY DEF MergeStands, InputsStand
  <2> QED BY <2>1, <2>2, <2>3 DEF MergeStands, InputsStand
<1>3. OutputsStand(w, k, m)
  <2>1. ASSUME NEW f \in Made(m) PROVE f.number \in Nat
    <3>1. f \in File
      BY DEF Made, MergeStands, OutputsStand
    <3> QED BY <3>1, FileBounds
  <2>2. \A f \in Made(m) : f.number < n
    BY DEF MergeStands, OutputsStand
  <2>3. \A f \in Made(m) : f.number < k
    BY <2>1, <2>2
  <2> QED BY <2>3 DEF MergeStands, OutputsStand
<1> QED BY <1>2, <1>3 DEF MergeStands

\* An edit that adds nothing and deletes nothing.
LEMMA EmptyEdit ==
  ASSUME NEW v, Version(v), NEW n \in Nat, Numbered(v, n), NEW k \in Nat, n <= k
  PROVE  /\ Version(ApplyEdit(v, {}, {})) /\ Numbered(ApplyEdit(v, {}, {}), k)
         /\ \A level \in Levels : FilesOf(ApplyEdit(v, {}, {})[level]) = FilesOf(v[level])
         /\ \A m : MergeStands(v, n, m) => MergeStands(ApplyEdit(v, {}, {}), k, m)
<1> DEFINE w == ApplyEdit(v, {}, {})
<1>1. \A level \in Levels : After(v, level, {}, {}) = FilesOf(v[level])
  BY DEF After
<1>2. {} \in SUBSET (Levels \X File) /\ IsFiniteSet({})
  BY FS_EmptySet
<1>3. ASSUME NEW level \in Levels \ {0}
      PROVE \A f, g \in After(v, level, {}, {}) : f # g => Apart(f, g)
  BY <1>1, FilesOfALevel DEF Version
<1>4. /\ Version(w) /\ \A level \in Levels : FilesOf(w[level]) = After(v, level, {}, {})
      /\ AllFiles(w) \subseteq AllFiles(v) \cup {a[2] : a \in {}}
  BY <1>2, <1>3, EditedVersion
<1> HIDE DEF w
<1>5. AllFiles(w) \subseteq AllFiles(v)
  BY <1>4
<1>6. Numbered(w, k)
  <2>1. \A f \in AllFiles(v) : f.number \in Nat
    <3> SUFFICES ASSUME NEW level \in Levels, NEW f \in FilesOf(v[level]) PROVE f.number \in Nat
      BY DEF AllFiles
    <3>1. v[level] \in Seq(File)
      BY DEF Version
    <3>2. f \in File
      BY <3>1, FilesAreFinite
    <3> QED BY <3>2, FileBounds
  <2>2. \A f \in AllFiles(v) : f.number < k
    BY <2>1 DEF Numbered
  <2> QED BY <1>5, <2>2 DEF Numbered
<1>7. ASSUME NEW m, MergeStands(v, n, m) PROVE MergeStands(w, k, m)
  <2>1. m.c.level + 1 \in Levels
    BY <1>7, MergeLevels DEF MergeStands
  <2>2. \A level \in Levels : FilesOf(v[level]) \subseteq FilesOf(w[level])
    BY <1>1, <1>4
  <2>3. FilesOf(w[m.c.level + 1]) \ FilesOf(v[m.c.level + 1]) = {}
    BY <1>1, <1>4, <2>1
  <2>4. AllFiles(w) \ AllFiles(v) = {}
    BY <1>5
  <2> QED BY <1>7, <2>2, <2>3, <2>4, MergeStillStands
<1> QED BY <1>1, <1>4, <1>6, <1>7 DEF w

\* WriteLevel0Table puts a memtable with the entries S, as file number n, where
\* PickLevelForMemTableOutput says.
FlushedFile(v, n, S) ==
  LET f == FileMetaData(n, S)
  IN <<PickLevelForMemTableOutput(v, f.smallest.key, f.largest.key), f>>

\* In a level above 0 the flushed file avoids all files of the levels down to
\* its own.
LEMMA FlushedFileIsApart ==
  ASSUME NEW v, Version(v), NEW n \in Nat, NEW S \in SUBSET Entry, IsFiniteSet(S), S # {}
  PROVE  /\ FlushedFile(v, n, S) \in Levels \X File
         /\ FlushedFile(v, n, S)[2].number = n /\ FlushedFile(v, n, S)[2].entries = S
         /\ FlushedFile(v, n, S)[1] # 0 =>
              \A l \in 0 .. FlushedFile(v, n, S)[1] : \A g \in FilesOf(v[l]) :
                \/ g.largest.key < FlushedFile(v, n, S)[2].smallest.key
                \/ FlushedFile(v, n, S)[2].largest.key < g.smallest.key
<1> DEFINE f == FileMetaData(n, S)
           level == PickLevelForMemTableOutput(v, f.smallest.key, f.largest.key)
<1>1. f \in File /\ f.number = n /\ f.entries = S
  BY NewFile
<1> HIDE DEF f
<1>2. f.smallest.key \in Keys /\ f.largest.key \in Keys
  BY <1>1, FileBounds
<1>3. v \in [Levels -> Seq(File)] /\ \A l \in Levels \ {0} : InOrder(v[l])
  BY DEF Version
<1>4. /\ level \in Levels
      /\ level # 0 => \A l \in 0 .. level : \A g \in FilesOf(v[l]) :
            g.largest.key < f.smallest.key \/ f.largest.key < g.smallest.key
  BY <1>2, <1>3, FlushLevel
<1>5. FlushedFile(v, n, S) = <<level, f>>
  BY DEF FlushedFile, f
<1> HIDE DEF level
<1> QED BY <1>1, <1>4, <1>5

\* What avoids the user keys of a file is apart from it.
LEMMA KeysApart ==
  ASSUME NEW f \in File, NEW g \in File
  PROVE  /\ g.largest.key < f.smallest.key => Less(g.largest, f.smallest) /\ Apart(g, f) /\ Apart(f, g)
         /\ g.largest.key < f.smallest.key =>
              \A e \in g.entries, o \in f.entries : e.key < o.key
         /\ Apart(f, g) <=> Apart(g, f)
<1>1. \A x \in File : x.smallest \in IKey /\ x.largest \in IKey
                      /\ \A e \in x.entries : e \in IKey /\ LessEq(x.smallest, e) /\ LessEq(e, x.largest)
  BY FileBounds, EntriesAreKeys
<1>2. \A a, b \in IKey : a.key < b.key => Less(a, b)
  BY KeyOrder
<1>3. \A a, b \in IKey : LessEq(a, b) => a.key <= b.key
  BY KeyOrder
<1>4. ASSUME g.largest.key < f.smallest.key, NEW e \in g.entries, NEW o \in f.entries
      PROVE e.key < o.key
  <2>1. e.key <= g.largest.key /\ f.smallest.key <= o.key
    BY <1>1, <1>3
  <2>2. e.key \in Int /\ g.largest.key \in Int /\ f.smallest.key \in Int /\ o.key \in Int
    BY <1>1 DEF IKey
  <2> QED BY <1>4, <2>1, <2>2
<1>5. g.largest.key < f.smallest.key => Less(g.largest, f.smallest)
  BY <1>1, <1>2
<1> QED BY <1>4, <1>5 DEF Apart

\* A memtable flushed below the inputs of a merge is beside them.
LEMMA FlushedFileIsBeside ==
  ASSUME NEW v, Version(v), NEW n \in Nat, NEW S \in SUBSET Entry, IsFiniteSet(S), S # {},
         NEW a, a = FlushedFile(v, n, S), NEW c, InputsStand(v, c), a[1] = c.level + 1
  PROVE  KeysBeside(a[2], InputFiles(c)) /\ InputFiles(c) \in SUBSET File
<1> DEFINE g == a[2]
<1>1. c.level \in Levels /\ c.level + 1 \in Levels /\ c.level \in 0 .. kNumLevels - 2
  BY MergeLevels
<1>2. InputFiles(c) \subseteq FilesOf(v[c.level]) \cup FilesOf(v[c.level + 1])
  BY DEF InputsStand, InputFiles
<1>3. InputFiles(c) \in SUBSET File
  <2>1. v[c.level] \in Seq(File) /\ v[c.level + 1] \in Seq(File)
    BY <1>1 DEF Version
  <2> QED BY <1>2, <2>1, FilesAreFinite
<1>4. /\ g \in File
      /\ \A l \in 0 .. a[1] : \A f \in FilesOf(v[l]) :
           f.largest.key < g.smallest.key \/ g.largest.key < f.smallest.key
  <2>1. a[1] # 0
    BY <1>1
  <2> QED BY <2>1, FlushedFileIsApart
<1> HIDE DEF g
<1>5. \A f \in InputFiles(c) : f.largest.key < g.smallest.key \/ g.largest.key < f.smallest.key
  <2>1. c.level \in 0 .. a[1] /\ c.level + 1 \in 0 .. a[1]
    BY <1>1
  <2> QED BY <1>2, <1>4, <2>1
<1>6. PICK lo \in Keys, hi \in Keys : Solid(InputFiles(c), lo, hi)
  BY DEF InputsStand, Gapless
<1>7. g.smallest.key \in Keys /\ g.largest.key \in Keys /\ g.smallest.key <= g.largest.key
  BY <1>4, FileBounds
<1>8. \/ \A f \in InputFiles(c) : f.largest.key < g.smallest.key
      \/ \A f \in InputFiles(c) : g.largest.key < f.smallest.key
  BY <1>3, <1>5, <1>6, <1>7, OnOneSide
<1> QED BY <1>3, <1>8 DEF KeysBeside, g

\* WriteLevel0Table puts the new file into a level where it meets no other, and
\* leaves a running compaction's inputs as they are.
LEMMA FlushedVersion ==
  ASSUME NEW v, Version(v), NEW n \in Nat, Numbered(v, n),
         NEW S \in SUBSET Entry, IsFiniteSet(S), S # {}, NEW a, a = FlushedFile(v, n, S)
  PROVE  /\ Version(ApplyEdit(v, {}, {a})) /\ Numbered(ApplyEdit(v, {}, {a}), n + 1)
         /\ \A level \in Levels : FilesOf(ApplyEdit(v, {}, {a})[level])
                                    = FilesOf(v[level]) \cup (IF level = a[1] THEN {a[2]} ELSE {})
         /\ \A m : MergeStands(v, n, m) => MergeStands(ApplyEdit(v, {}, {a}), n + 1, m)
<1> DEFINE w == ApplyEdit(v, {}, {a})
<1>1. /\ a \in Levels \X File /\ a[2].number = n /\ a[1] \in Levels /\ a[2] \in File
      /\ a = <<a[1], a[2]>>
      /\ a[1] # 0 => \A l \in 0 .. a[1] : \A g \in FilesOf(v[l]) :
                       g.largest.key < a[2].smallest.key \/ a[2].largest.key < g.smallest.key
  BY FlushedFileIsApart
<1>2. ASSUME NEW level \in Levels
      PROVE  /\ v[level] \in Seq(File) /\ FilesOf(v[level]) \subseteq File
             /\ FilesOf(v[level]) \subseteq AllFiles(v)
             /\ After(v, level, {}, {a}) = FilesOf(v[level]) \cup (IF level = a[1] THEN {a[2]} ELSE {})
  <2>1. v[level] \in Seq(File)
    BY DEF Version
  <2>2. FilesOf(v[level]) \subseteq File
    BY <2>1, FilesAreFinite
  <2>3. {f \in {x[2] : x \in {a}} : <<level, f>> \in {a}} = IF level = a[1] THEN {a[2]} ELSE {}
    BY <1>1
  <2>4. {f \in FilesOf(v[level]) : <<level, f>> \notin {}} = FilesOf(v[level])
    OBVIOUS
  <2> QED BY <2>1, <2>2, <2>3, <2>4 DEF After, AllFiles
<1>3. \A f \in AllFiles(v) : f.number \in Nat /\ f.number < n
  <2>1. \A f \in AllFiles(v) : f \in File
    BY <1>2 DEF AllFiles
  <2> QED BY <2>1, FileBounds DEF Numbered
<1>4. ASSUME NEW level \in Levels \ {0}, NEW f \in After(v, level, {}, {a}),
             NEW g \in After(v, level, {}, {a}), f # g
      PROVE  Apart(f, g)
  <2>1. \A x, y \in FilesOf(v[level]) : x # y => Apart(x, y)
    BY <1>2, FilesOfALevel DEF Version
  <2>2. ASSUME NEW x \in FilesOf(v[level]), level = a[1] PROVE Apart(x, a[2]) /\ Apart(a[2], x)
    <3>1. a[1] # 0 /\ a[1] \in 0 .. a[1] /\ x \in FilesOf(v[a[1]]) /\ x \in File
      BY <1>1, <1>2, <2>2 DEF Levels
    <3>2. x.largest.key < a[2].smallest.key \/ a[2].largest.key < x.smallest.key
      BY <1>1, <3>1
    <3> QED BY <1>1, <3>1, <3>2, KeysApart
  <2>3. \A x \in After(v, level, {}, {a}) : x \in FilesOf(v[level]) \/ (level = a[1] /\ x = a[2])
    BY <1>2
  <2>4. /\ f \in FilesOf(v[level]) \/ (level = a[1] /\ f = a[2])
        /\ g \in FilesOf(v[level]) \/ (level = a[1] /\ g = a[2])
    BY <1>4, <2>3
  <2> QED BY ONLY <1>4, <2>1, <2>2, <2>4
<1>5. /\ Version(w) /\ \A level \in Levels : FilesOf(w[level]) = After(v, level, {}, {a})
      /\ AllFiles(w) \subseteq AllFiles(v) \cup {x[2] : x \in {a}}
  <2>1. {a} \in SUBSET (Levels \X File) /\ IsFiniteSet({a})
    BY <1>1, FS_Singleton
  <2>2. \A x, y \in {a} : x[2].number = y[2].number => x[2] = y[2]
    OBVIOUS
  <2>3. \A x \in {a}, f \in AllFiles(v) : f.number = x[2].number => f = x[2]
    BY <1>1, <1>3
  <2>4. \A level \in Levels \ {0} : \A f, g \in After(v, level, {}, {a}) : f # g => Apart(f, g)
    BY <1>4
  <2> QED BY <2>1, <2>2, <2>3, <2>4, EditedVersion
<1> HIDE DEF w
<1>6. /\ AllFiles(w) \subseteq AllFiles(v) \cup {a[2]}
      /\ \A level \in Levels : FilesOf(w[level]) = FilesOf(v[level]) \cup (IF level = a[1] THEN {a[2]} ELSE {})
  <2>1. ASSUME NEW level \in Levels
        PROVE  FilesOf(w[level]) = FilesOf(v[level]) \cup (IF level = a[1] THEN {a[2]} ELSE {})
    <3>1. FilesOf(w[level]) = After(v, level, {}, {a})
      BY <1>5
    <3>2. After(v, level, {}, {a}) = FilesOf(v[level]) \cup (IF level = a[1] THEN {a[2]} ELSE {})
      BY <1>2
    <3> QED BY ONLY <3>1, <3>2
  <2>2. {x[2] : x \in {a}} = {a[2]}
    OBVIOUS
  <2> QED BY <1>5, <2>1, <2>2
<1>7. Numbered(w, n + 1)
  BY <1>1, <1>3, <1>6 DEF Numbered
<1>8. ASSUME NEW m, MergeStands(v, n, m) PROVE MergeStands(w, n + 1, m)
  <2>1. m.c.level \in Levels /\ m.c.level + 1 \in Levels /\ m.c.level \in 0 .. kNumLevels - 2
    BY <1>8, MergeLevels DEF MergeStands
  <2>2. \A level \in Levels : FilesOf(v[level]) \subseteq FilesOf(w[level])
    BY ONLY <1>6
  <2>3. ASSUME NEW g \in FilesOf(w[m.c.level + 1]) \ FilesOf(v[m.c.level + 1])
        PROVE  Beside(g, InputFiles(m.c))
    <3>1. g = a[2] /\ a[1] = m.c.level + 1
      BY ONLY <1>6, <2>1, <2>3
    <3>2. InputsStand(v, m.c)
      BY <1>8 DEF MergeStands
    <3>3. KeysBeside(g, InputFiles(m.c)) /\ g \in File /\ InputFiles(m.c) \in SUBSET File
      BY <1>1, <3>1, <3>2, FlushedFileIsBeside
    <3> QED BY <3>3, KeysApart DEF Beside, KeysBeside
  <2>4. ASSUME NEW g \in AllFiles(w) \ AllFiles(v), NEW f \in Made(m) PROVE g.number # f.number
    <3>1. g.number = n
      BY <1>1, <1>6, <2>4
    <3>2. f \in File /\ f.number < n
      BY <1>8, <2>4 DEF MergeStands, OutputsStand, Made
    <3>3. f.number \in Nat
      BY <3>2, FileBounds
    <3> QED BY <3>1, <3>2, <3>3
  <2>5. n + 1 \in Nat /\ n <= n + 1
    OBVIOUS
  <2> QED BY <1>8, <2>2, <2>3, <2>4, <2>5, MergeStillStands
<1> QED BY <1>2, <1>5, <1>7, <1>8 DEF w

-----------------------------------------------------------------------------
(* A merge begins                                                          *)

\* What the next level has besides the inputs is beside them.
LEMMA OthersAreBeside ==
  ASSUME NEW v, Version(v), NEW level \in 0 .. kNumLevels - 2, NEW c, Inputs(v, level, c),
         NEW g \in FilesOf(v[level + 1]) \ FilesOf(c.inputs1)
  PROVE  /\ KeysBeside(g, FilesOf(c.inputs0))
         /\ Beside(g, InputFiles(c))
         /\ (\A h \in FilesOf(c.inputs1) : KeysBeside(g, {h})) => KeysBeside(g, InputFiles(c))
<1> DEFINE lo == GetRange(c.inputs0).smallest.key
           hi == GetRange(c.inputs0).largest.key
<1>1. level + 1 \in Levels \ {0} /\ c.inputs0 \in Seq(File) /\ c.inputs0 # <<>> /\ c.inputs1 \in Seq(File)
  BY LevelsAssumption DEF Inputs, Chosen, Levels
<1>2. lo \in Keys /\ hi \in Keys /\ lo <= hi /\ Within(FilesOf(c.inputs0), lo, hi)
  BY <1>1, RangeOf
<1>3. FilesOf(c.inputs1) = Hits(FilesOf(v[level + 1]), lo, hi)
  BY DEF Inputs
<1>4. v[level + 1] \in Seq(File) /\ InOrder(v[level + 1])
  BY <1>1 DEF Version
<1>5. FilesOf(v[level + 1]) \subseteq File /\ FilesOf(c.inputs0) \subseteq File /\ FilesOf(c.inputs1) \subseteq File
  BY <1>1, <1>4, FilesAreFinite
<1> HIDE DEF lo, hi
<1>6. \A f \in File : f.smallest.key \in Int /\ f.largest.key \in Int /\ f.smallest.key <= f.largest.key
  BY FileBounds
<1>7. g \in File /\ lo \in Int /\ hi \in Int
  BY <1>2, <1>5, LSMAssumption
<1>8. g.largest.key < lo \/ hi < g.smallest.key
  <2>1. ~(lo <= g.largest.key /\ g.smallest.key <= hi)
    BY <1>3 DEF Hits
  <2> QED BY <1>6, <1>7, <2>1
<1>9. \A h \in FilesOf(c.inputs0) : lo <= h.smallest.key /\ h.largest.key <= hi
  BY <1>2 DEF Within
<1>10. \A h \in FilesOf(c.inputs1) : lo <= h.largest.key /\ h.smallest.key <= hi
  BY <1>3 DEF Hits
<1>11. \A h \in FilesOf(c.inputs1) : Apart(g, h)
  <2>1. FilesOf(c.inputs1) \subseteq FilesOf(v[level + 1])
    BY <1>3 DEF Hits
  <2> QED BY <1>4, <2>1, FilesOfALevel
<1>12. \A x, y \in File : Less(x.largest, y.smallest) => x.largest.key <= y.smallest.key
  <2>1. \A x \in File : x.smallest \in IKey /\ x.largest \in IKey
    BY FileBounds, EntriesAreKeys
  <2> QED BY <2>1, KeyOrder
<1>13. \A x, y \in File : x.largest.key < y.smallest.key => Less(x.largest, y.smallest)
  BY KeysApart
<1>14. CASE g.largest.key < lo
  <2>1. \A h \in FilesOf(c.inputs0) : g.largest.key < h.smallest.key
    <3> SUFFICES ASSUME NEW h \in FilesOf(c.inputs0) PROVE g.largest.key < h.smallest.key
      OBVIOUS
    <3> QED BY <1>5, <1>6, <1>7, <1>9, <1>14
  <2>2. ASSUME NEW h \in FilesOf(c.inputs1) PROVE ~(h.largest.key <= g.smallest.key)
    <3>1. lo <= h.largest.key /\ h \in File
      BY <1>5, <1>10
    <3> QED BY <1>6, <1>7, <1>14, <3>1
  <2>3. \A h \in FilesOf(c.inputs1) : Less(g.largest, h.smallest)
    BY <1>5, <1>7, <1>11, <1>12, <2>2 DEF Apart
  <2>4. ASSUME NEW h \in FilesOf(c.inputs1), KeysBeside(g, {h}) PROVE g.largest.key < h.smallest.key
    <3>1. g.largest.key < h.smallest.key \/ h.largest.key < g.smallest.key
      BY <2>4 DEF KeysBeside
    <3>2. h.largest.key < g.smallest.key => h.largest.key <= g.smallest.key
      BY <1>5, <1>6, <1>7
    <3> QED BY <2>2, <3>1, <3>2
  <2>5. Beside(g, InputFiles(c))
    BY <1>5, <1>7, <1>13, <2>1, <2>3 DEF Beside, InputFiles
  <2> QED BY <2>1, <2>4, <2>5 DEF KeysBeside, InputFiles
<1>15. CASE hi < g.smallest.key
  <2>1. \A h \in FilesOf(c.inputs0) : h.largest.key < g.smallest.key
    <3> SUFFICES ASSUME NEW h \in FilesOf(c.inputs0) PROVE h.largest.key < g.smallest.key
      OBVIOUS
    <3> QED BY <1>5, <1>6, <1>7, <1>9, <1>15
  <2>2. ASSUME NEW h \in FilesOf(c.inputs1) PROVE ~(g.largest.key <= h.smallest.key)
    <3>1. h.smallest.key <= hi /\ h \in File
      BY <1>5, <1>10
    <3> QED BY <1>6, <1>7, <1>15, <3>1
  <2>3. \A h \in FilesOf(c.inputs1) : Less(h.largest, g.smallest)
    BY <1>5, <1>7, <1>11, <1>12, <2>2 DEF Apart
  <2>4. ASSUME NEW h \in FilesOf(c.inputs1), KeysBeside(g, {h}) PROVE h.largest.key < g.smallest.key
    <3>1. g.largest.key < h.smallest.key \/ h.largest.key < g.smallest.key
      BY <2>4 DEF KeysBeside
    <3>2. g.largest.key < h.smallest.key => g.largest.key <= h.smallest.key
      BY <1>5, <1>6, <1>7
    <3> QED BY <2>2, <3>1, <3>2
  <2>5. Beside(g, InputFiles(c))
    BY <1>5, <1>7, <1>13, <2>1, <2>3 DEF Beside, InputFiles
  <2> QED BY <2>1, <2>4, <2>5 DEF KeysBeside, InputFiles
<1> QED BY <1>8, <1>14, <1>15

\* The inputs of a compaction are files of the version, and every other file of
\* both levels lies beside them.
LEMMA InputsAreThere ==
  ASSUME NEW v, Version(v), NEW level \in 0 .. kNumLevels - 2, NEW c, Inputs(v, level, c)
  PROVE  InputsStand(v, c)
<1>1. c.level = level /\ c.inputs0 \in Seq(File) /\ c.inputs1 \in Seq(File)
      /\ FilesOf(c.inputs0) \subseteq FilesOf(v[c.level]) /\ Gapless(InputFiles(c))
  BY DEF Inputs, Chosen, InputFiles
<1>2. FilesOf(c.inputs1) \subseteq FilesOf(v[c.level + 1])
  BY DEF Inputs, Hits
<1>3. \A g \in FilesOf(v[c.level + 1]) \ FilesOf(c.inputs1) : Beside(g, InputFiles(c))
  BY <1>1, OthersAreBeside
<1> QED BY <1>1, <1>2, <1>3 DEF InputsStand

\* The files written from out, one after the other, with new numbers.
NewFiles(c, n, out) == {<<c.level + 1, FileMetaData(n + i - 1, out[i])>> : i \in DOMAIN out}

WrittenFiles(F, n, out) ==
  /\ F = {FileMetaData(n + i - 1, out[i]) : i \in DOMAIN out}
  /\ \A i \in DOMAIN out : FileMetaData(n + i - 1, out[i]) \in File
                           /\ FileMetaData(n + i - 1, out[i]).entries = out[i]

\* The files a compaction writes have new numbers and lie within its inputs.
LEMMA OutputsAreGood ==
  ASSUME NEW v, NEW n \in Nat, Numbered(v, n), \A f \in AllFiles(v) : f.number \in Nat,
         NEW c, NEW P, P \subseteq InputEntries(c), NEW out, InPieces(out, P),
         NEW m, m.c = c, m.outputs = NewFiles(c, n, out)
  PROVE  /\ OutputsStand(v, n + Len(out), m) /\ n + Len(out) \in Nat
         /\ WrittenFiles(Made(m), n, out)
<1> DEFINE F(i) == FileMetaData(n + i - 1, out[i])
<1>1. out \in Seq(SUBSET Entry) /\ DOMAIN out = 1 .. Len(out) /\ Len(out) \in Nat
  BY DEF InPieces
<1>2. ASSUME NEW i \in DOMAIN out
      PROVE  /\ F(i) \in File /\ F(i).number = n + i - 1 /\ F(i).entries = out[i]
             /\ out[i] \subseteq P
  <2>1. out[i] \in SUBSET Entry /\ IsFiniteSet(out[i]) /\ out[i] # {} /\ n + i - 1 \in Nat /\ out[i] \subseteq P
    BY <1>1 DEF InPieces
  <2> QED BY <2>1, NewFile
<1>3. m.outputs = {<<c.level + 1, F(i)>> : i \in DOMAIN out}
  BY DEF NewFiles
<1>4. Made(m) = {F(i) : i \in DOMAIN out}
  <2> HIDE DEF F
  <2>1. Made(m) = {o[2] : o \in {<<c.level + 1, F(i)>> : i \in DOMAIN out}}
    BY <1>3 DEF Made
  <2>2. \A i \in DOMAIN out : <<c.level + 1, F(i)>>[2] = F(i)
    OBVIOUS
  <2>3. \A o \in {<<c.level + 1, F(i)>> : i \in DOMAIN out} : \E i \in DOMAIN out : o[2] = F(i)
    BY <2>2
  <2>4. Made(m) \subseteq {F(i) : i \in DOMAIN out}
    BY <2>1, <2>3
  <2>5. ASSUME NEW i \in DOMAIN out PROVE F(i) \in Made(m)
    <3>1. <<c.level + 1, F(i)>> \in {<<c.level + 1, F(j)>> : j \in DOMAIN out}
      OBVIOUS
    <3> QED BY <2>1, <2>2, <3>1
  <2> QED BY <2>4, <2>5
<1>5. ASSUME NEW i \in DOMAIN out, NEW j \in DOMAIN out, i < j PROVE Less(F(i).largest, F(j).smallest)
  <2>1. F(i).largest \in F(i).entries /\ F(j).smallest \in F(j).entries
    BY <1>2 DEF File
  <2>2. F(i).largest \in out[i] /\ F(j).smallest \in out[j]
    BY <1>2, <2>1
  <2>3. \A e \in out[i], o \in out[j] : Less(e, o)
    BY <1>5 DEF InPieces
  <2> HIDE DEF F
  <2> QED BY <2>2, <2>3
<1> HIDE DEF F
<1>6. ASSUME NEW f \in Made(m), NEW g \in Made(m), f # g PROVE f.number # g.number /\ Apart(f, g)
  <2>1. PICK i \in DOMAIN out : f = F(i)
    BY <1>4
  <2>2. PICK j \in DOMAIN out : g = F(j)
    BY <1>4
  <2>3. i < j \/ j < i
    BY <1>1, <1>6, <2>1, <2>2
  <2>4. f.number # g.number
    BY <1>1, <1>2, <2>1, <2>2, <2>3
  <2> QED BY <1>5, <2>1, <2>2, <2>3, <2>4 DEF Apart
<1>7. \A f \in Made(m) : f.entries \subseteq InputEntries(m.c) /\ f.number < n + Len(out) /\ n <= f.number
  <2> SUFFICES ASSUME NEW i \in DOMAIN out
               PROVE  F(i).entries \subseteq InputEntries(m.c) /\ F(i).number < n + Len(out) /\ n <= F(i).number
    BY <1>4
  <2>1. F(i).number = n + i - 1 /\ i \in 1 .. Len(out)
    BY <1>1, <1>2
  <2> QED BY <1>1, <1>2, <2>1
<1>8. ASSUME NEW f \in Made(m), NEW g \in AllFiles(v) PROVE g.number # f.number
  <2>1. f.number \in Nat
    BY <1>2, <1>4, FileBounds
  <2> QED BY <1>7, <1>8, <2>1 DEF Numbered
<1>9. m.outputs \in SUBSET ({m.c.level + 1} \X File)
  BY <1>2, <1>3
<1>10. IsFiniteSet(m.outputs)
  <2> DEFINE G == [i \in 1 .. Len(out) |-> <<c.level + 1, F(i)>>]
  <2>1. G \in Surjection(1 .. Len(out), m.outputs)
    BY <1>1, <1>3 DEF Surjection
  <2>2. IsFiniteSet(1 .. Len(out))
    BY <1>1, FS_Interval
  <2> HIDE DEF G
  <2> QED BY <2>1, <2>2, FS_Surjection
<1>11. OutputsStand(v, n + Len(out), m)
  BY <1>6, <1>7, <1>8, <1>9, <1>10 DEF OutputsStand
<1>12. WrittenFiles(Made(m), n, out)
  BY <1>2, <1>4 DEF F, WrittenFiles
<1> QED BY <1>1, <1>11, <1>12

-----------------------------------------------------------------------------
(* A merge ends; a file moves                                              *)

\* What has a place beside all inputs is apart from what is made of them.
LEMMA BesideTheOutputs ==
  ASSUME NEW F \in SUBSET File, NEW g \in File, Beside(g, F), NEW f \in File,
         f.entries \subseteq UNION {h.entries : h \in F}
  PROVE  Apart(g, f)
<1>1. PICK h1 \in F : f.smallest \in h1.entries
  BY DEF File
<1>2. PICK h2 \in F : f.largest \in h2.entries
  BY DEF File
<1>3. LessEq(h1.smallest, f.smallest) /\ LessEq(f.largest, h2.largest)
  BY <1>1, <1>2, FileBounds
<1>4. /\ g.smallest \in IKey /\ g.largest \in IKey /\ f.smallest \in IKey /\ f.largest \in IKey
      /\ h1.smallest \in IKey /\ h2.largest \in IKey
  BY FileBounds, EntriesAreKeys
<1>5. CASE \A h \in F : Less(g.largest, h.smallest)
  <2>1. Less(g.largest, f.smallest)
    BY <1>3, <1>4, <1>5, KeyOrder
  <2> QED BY <2>1 DEF Apart
<1>6. CASE \A h \in F : Less(h.largest, g.smallest)
  <2>1. Less(f.largest, g.smallest)
    BY <1>3, <1>4, <1>6, KeyOrder
  <2> QED BY <2>1 DEF Apart
<1> QED BY <1>5, <1>6 DEF Beside

\* The levels of v with those of the inputs of c, and with made below.
Replaced(v, c, made, level) ==
  IF level = c.level THEN FilesOf(v[level]) \ FilesOf(c.inputs0)
  ELSE IF level = c.level + 1 THEN (FilesOf(v[level]) \ FilesOf(c.inputs1)) \cup made
  ELSE FilesOf(v[level])

LevelsReplaced(v, c, made, w) ==
  \A level \in Levels : FilesOf(w[level]) = Replaced(v, c, made, level)

\* The files of a version.
LEMMA VersionFilesAreFiles ==
  ASSUME NEW v, Version(v)
  PROVE  /\ \A level \in Levels : /\ v[level] \in Seq(File) /\ FilesOf(v[level]) \subseteq File
                                  /\ FilesOf(v[level]) \subseteq AllFiles(v)
         /\ AllFiles(v) \subseteq File /\ \A f \in AllFiles(v) : f.number \in Nat
<1>1. ASSUME NEW level \in Levels
      PROVE  v[level] \in Seq(File) /\ FilesOf(v[level]) \subseteq File
  <2>1. v[level] \in Seq(File)
    BY DEF Version
  <2> QED BY <2>1, FilesAreFinite
<1>2. AllFiles(v) \subseteq File
  BY <1>1 DEF AllFiles
<1>3. \A f \in AllFiles(v) : f.number \in Nat
  BY <1>2, FileBounds
<1> QED BY <1>1, <1>2, <1>3 DEF AllFiles

\* InstallCompactionResults.
LEMMA InstalledVersion ==
  ASSUME NEW v, Version(v), NEW n \in Nat, Numbered(v, n), NEW m, MergeStands(v, n, m)
  PROVE  /\ Version(ApplyEdit(v, AddInputDeletions(m.c), m.outputs))
         /\ Numbered(ApplyEdit(v, AddInputDeletions(m.c), m.outputs), n)
         /\ \A level \in Levels : FilesOf(ApplyEdit(v, AddInputDeletions(m.c), m.outputs)[level])
                                    = Replaced(v, m.c, Made(m), level)
<1> DEFINE D == AddInputDeletions(m.c)
           w == ApplyEdit(v, D, m.outputs)
<1>1. m.c.level \in Levels /\ m.c.level + 1 \in Levels /\ m.c.level \in Int
  BY MergeLevels DEF MergeStands, Levels
<1>2. m.outputs \in SUBSET ({m.c.level + 1} \X File) /\ IsFiniteSet(m.outputs)
  BY DEF MergeStands, OutputsStand
<1>3. m.outputs \in SUBSET (Levels \X File) /\ Made(m) \subseteq File
  BY <1>1, <1>2 DEF Made
<1>4. ASSUME NEW level \in Levels
      PROVE  After(v, level, D, m.outputs) = Replaced(v, m.c, Made(m), level)
  <2>1. {f \in {a[2] : a \in m.outputs} : <<level, f>> \in m.outputs}
          = IF level = m.c.level + 1 THEN Made(m) ELSE {}
    BY <1>2 DEF Made
  <2>2. {f \in FilesOf(v[level]) : <<level, f>> \notin D}
          = IF level = m.c.level THEN FilesOf(v[level]) \ FilesOf(m.c.inputs0)
            ELSE IF level = m.c.level + 1 THEN FilesOf(v[level]) \ FilesOf(m.c.inputs1)
            ELSE FilesOf(v[level])
    BY <1>1 DEF AddInputDeletions
  <2> HIDE DEF D
  <2>3. level = m.c.level => level # m.c.level + 1
    BY <1>1
  <2> QED BY <2>1, <2>2, <2>3 DEF After, Replaced
<1>5. \A x \in Made(m), y \in AllFiles(v) : y.number # x.number
  BY DEF MergeStands, OutputsStand
<1>6. \A x, y \in Made(m) : x # y => x.number # y.number /\ Apart(x, y)
  BY DEF MergeStands, OutputsStand
<1>7. ASSUME NEW level \in Levels \ {0}, NEW f \in Replaced(v, m.c, Made(m), level),
             NEW g \in Replaced(v, m.c, Made(m), level), f # g
      PROVE  Apart(f, g)
  <2>1. \A x, y \in FilesOf(v[level]) : x # y => Apart(x, y)
    BY FilesOfALevel DEF Version
  <2>2. FilesOf(v[level]) \subseteq File
    BY VersionFilesAreFiles
  <2>3. CASE f \in FilesOf(v[level]) /\ g \in FilesOf(v[level])
    BY <1>7, <2>1, <2>3
  <2>4. CASE ~(f \in FilesOf(v[level]) /\ g \in FilesOf(v[level]))
    <3>1. /\ level = m.c.level + 1
          /\ \A x \in Replaced(v, m.c, Made(m), level) :
               x \in Made(m) \/ x \in FilesOf(v[level]) \ FilesOf(m.c.inputs1)
      BY <1>1, <1>7, <2>4 DEF Replaced
    <3>2. ASSUME NEW x \in Made(m), NEW y \in FilesOf(v[level]) \ FilesOf(m.c.inputs1)
          PROVE  Apart(y, x) /\ Apart(x, y)
      <4>1. Beside(y, InputFiles(m.c))
        BY <3>1 DEF MergeStands, InputsStand
      <4>2. x.entries \subseteq UNION {h.entries : h \in InputFiles(m.c)}
        BY DEF MergeStands, OutputsStand, InputEntries
      <4>3. x \in File /\ y \in File
        BY <1>3, <2>2
      <4>4. InputFiles(m.c) \in SUBSET File
        BY FilesAreFinite DEF MergeStands, InputsStand, InputFiles
      <4>5. Apart(y, x)
        BY <4>1, <4>2, <4>3, <4>4, BesideTheOutputs
      <4> QED BY <4>3, <4>5, KeysApart
    <3> QED BY <1>6, <1>7, <2>4, <3>1, <3>2
  <2> QED BY <2>3, <2>4
<1>8. /\ Version(w) /\ \A level \in Levels : FilesOf(w[level]) = After(v, level, D, m.outputs)
      /\ AllFiles(w) \subseteq AllFiles(v) \cup {a[2] : a \in m.outputs}
  <2>1. \A a \in m.outputs : a[2] \in Made(m)
    BY DEF Made
  <2>2. \A a, b \in m.outputs : a[2].number = b[2].number => a[2] = b[2]
    BY <1>6, <2>1
  <2>3. \A a \in m.outputs, f \in AllFiles(v) : f.number = a[2].number => f = a[2]
    BY <1>5, <2>1
  <2>4. \A level \in Levels \ {0} : \A f, g \in After(v, level, D, m.outputs) : f # g => Apart(f, g)
    BY <1>4, <1>7
  <2> HIDE DEF D
  <2>5. /\ Version(v) /\ m.outputs \in SUBSET (Levels \X File) /\ IsFiniteSet(m.outputs)
        /\ \A a, b \in m.outputs : a[2].number = b[2].number => a[2] = b[2]
        /\ \A a \in m.outputs, f \in AllFiles(v) : f.number = a[2].number => f = a[2]
        /\ \A level \in Levels \ {0} : \A f, g \in After(v, level, D, m.outputs) : f # g => Apart(f, g)
    BY <1>2, <1>3, <2>2, <2>3, <2>4
  <2> QED BY ONLY <2>5, EditedVersion
<1>9. Numbered(w, n)
  <2> HIDE DEF w
  <2>1. \A f \in Made(m) : f.number < n
    BY DEF MergeStands, OutputsStand
  <2>2. AllFiles(w) \subseteq AllFiles(v) \cup Made(m)
    BY <1>8 DEF Made
  <2> QED BY <2>1, <2>2 DEF Numbered
<1>10. \A level \in Levels : FilesOf(w[level]) = Replaced(v, m.c, Made(m), level)
  <2> HIDE DEF w, D
  <2> QED BY <1>4, <1>8
<1> QED BY <1>8, <1>9, <1>10

\* The trivial move: the only input goes a level down, where nothing meets it.
LEMMA MovedVersion ==
  ASSUME NEW v, Version(v), NEW n \in Nat, Numbered(v, n),
         NEW level \in 0 .. kNumLevels - 2, NEW c, Inputs(v, level, c), IsTrivialMove(c),
         NEW w, w = ApplyEdit(v, {<<c.level, c.inputs0[1]>>}, {<<c.level + 1, c.inputs0[1]>>})
  PROVE  /\ Version(w) /\ Numbered(w, n)
         /\ LevelsReplaced(v, c, {c.inputs0[1]}, w)
         /\ FilesOf(c.inputs0) = {c.inputs0[1]} /\ FilesOf(c.inputs1) = {}
         /\ \A g \in FilesOf(v[level + 1]) : KeysBeside(g, {c.inputs0[1]})
<1> DEFINE f == c.inputs0[1]
           D == {<<c.level, f>>}
           A == {<<c.level + 1, f>>}
<1>1. /\ c.level = level /\ c.inputs0 \in Seq(File) /\ c.inputs0 # <<>>
      /\ FilesOf(c.inputs0) \subseteq FilesOf(v[level])
  BY DEF Inputs, Chosen
<1>2. FilesOf(c.inputs0) = {f} /\ FilesOf(c.inputs1) = {}
  <2>1. Len(c.inputs0) = 1 /\ c.inputs1 = <<>>
    BY DEF IsTrivialMove
  <2>2. DOMAIN c.inputs0 = {1}
    BY <1>1, <2>1
  <2> QED BY <2>1, <2>2 DEF FilesOf
<1> HIDE DEF f
<1>3. f \in FilesOf(v[level])
  BY <1>1, <1>2
<1>4. level \in Levels /\ level + 1 \in Levels \ {0} /\ level \in Int
  BY LevelsAssumption DEF Levels
<1>5. f \in File /\ f \in AllFiles(v)
  BY <1>3, <1>4, VersionFilesAreFiles
<1>6. \A g \in FilesOf(v[level + 1]) : KeysBeside(g, {f})
  <2>1. \A g \in FilesOf(v[level + 1]) \ FilesOf(c.inputs1) : KeysBeside(g, FilesOf(c.inputs0))
    BY OthersAreBeside
  <2> QED BY ONLY <1>2, <2>1
<1>7. ASSUME NEW l \in Levels PROVE After(v, l, D, A) = Replaced(v, c, {f}, l)
  <2>1. {g \in {a[2] : a \in A} : <<l, g>> \in A} = IF l = c.level + 1 THEN {f} ELSE {}
    OBVIOUS
  <2>2. {g \in FilesOf(v[l]) : <<l, g>> \notin D}
          = IF l = c.level THEN FilesOf(v[l]) \ {f} ELSE FilesOf(v[l])
    OBVIOUS
  <2>3. l = c.level => l # c.level + 1
    BY <1>1, <1>4
  <2> HIDE DEF A, D
  <2> QED BY <1>2, <2>1, <2>2, <2>3 DEF After, Replaced
<1>8. ASSUME NEW l \in Levels \ {0}, NEW x \in Replaced(v, c, {f}, l),
             NEW y \in Replaced(v, c, {f}, l), x # y
      PROVE  Apart(x, y)
  <2>1. \A p, q \in FilesOf(v[l]) : p # q => Apart(p, q)
    BY FilesOfALevel DEF Version
  <2>2. FilesOf(v[l]) \subseteq File
    BY VersionFilesAreFiles
  <2>3. ASSUME NEW g \in FilesOf(v[l]), l = level + 1 PROVE Apart(f, g) /\ Apart(g, f)
    <3>1. KeysBeside(g, {f}) /\ g \in File
      BY <1>6, <2>2, <2>3
    <3>2. g.largest.key < f.smallest.key \/ f.largest.key < g.smallest.key
      BY <3>1 DEF KeysBeside
    <3> QED BY <1>5, <3>1, <3>2, KeysApart
  <2>4. \A z \in Replaced(v, c, {f}, l) : z \in FilesOf(v[l]) \/ (l = level + 1 /\ z = f)
    BY <1>1 DEF Replaced
  <2> QED BY <1>8, <2>1, <2>3, <2>4
<1>9. /\ Version(w) /\ \A l \in Levels : FilesOf(w[l]) = After(v, l, D, A)
      /\ AllFiles(w) \subseteq AllFiles(v) \cup {a[2] : a \in A}
  <2>1. A \in SUBSET (Levels \X File) /\ IsFiniteSet(A)
    <3>1. c.level + 1 \in Levels
      BY <1>1, <1>4
    <3>2. <<c.level + 1, f>> \in Levels \X File
      BY <1>5, <3>1
    <3>3. IsFiniteSet({<<c.level + 1, f>>})
      BY FS_Singleton
    <3> QED BY <3>2, <3>3
  <2>2. \A a, b \in A : a[2].number = b[2].number => a[2] = b[2]
    OBVIOUS
  <2>3. \A a \in A, g \in AllFiles(v) : g.number = a[2].number => g = a[2]
    <3>1. \A x, y \in AllFiles(v) : x.number = y.number => x = y
      BY DEF Version
    <3> QED BY <1>5, <3>1
  <2>4. \A l \in Levels \ {0} : \A x, y \in After(v, l, D, A) : x # y => Apart(x, y)
    BY <1>7, <1>8
  <2>5. w = ApplyEdit(v, D, A)
    BY DEF f
  <2> HIDE DEF A, D
  <2>6. /\ Version(v) /\ A \in SUBSET (Levels \X File) /\ IsFiniteSet(A)
        /\ \A a, b \in A : a[2].number = b[2].number => a[2] = b[2]
        /\ \A a \in A, g \in AllFiles(v) : g.number = a[2].number => g = a[2]
        /\ \A l \in Levels \ {0} : \A x, y \in After(v, l, D, A) : x # y => Apart(x, y)
    BY <2>1, <2>2, <2>3, <2>4
  <2>7. /\ Version(ApplyEdit(v, D, A))
        /\ \A l \in Levels : FilesOf(ApplyEdit(v, D, A)[l]) = After(v, l, D, A)
        /\ AllFiles(ApplyEdit(v, D, A)) \subseteq AllFiles(v) \cup {a[2] : a \in A}
    BY ONLY <2>6, EditedVersion
  <2> QED BY <2>5, <2>7
<1>10. Numbered(w, n)
  <2>1. {a[2] : a \in A} = {f}
    OBVIOUS
  <2>2. AllFiles(w) \subseteq AllFiles(v)
    BY <1>5, <1>9, <2>1
  <2> QED BY <2>2 DEF Numbered
<1>11. \A l \in Levels : FilesOf(w[l]) = Replaced(v, c, {f}, l)
  <2> HIDE DEF D, A
  <2> QED BY <1>7, <1>9
<1> QED BY <1>2, <1>6, <1>9, <1>10, <1>11 DEF f, LevelsReplaced

-----------------------------------------------------------------------------
(* The levels stay in order                                                *)

\* An empty database has its levels in order.
LEMMA LevelsInvInit == Init => LevelsInv
<1> SUFFICES ASSUME Init PROVE LevelsInv
  OBVIOUS
<1>1. \A level \in Levels : version[level] = <<>>
  BY DEF Init
<1>2. AllFiles(version) = {}
  BY <1>1 DEF AllFiles, FilesOf
<1>3. Version(version)
  BY <1>1, <1>2 DEF Version, InOrder, Init
<1>4. ClientsInv
  BY FS_EmptySet, LSMAssumption DEF ClientsInv, Init
<1>5. VersionInv
  BY <1>2, <1>3 DEF VersionInv, Numbered, Charged, Init
<1> QED BY <1>4, <1>5 DEF LevelsInv, CompactionInv, Init

\* What a flush or the switch of memtables gives out as a number, no file has.
LEMMA MoreNumbers ==
  ASSUME NEW v, Version(v), NEW n \in Nat, NEW k \in Nat, n <= k
  PROVE  /\ Numbered(v, n) => Numbered(v, k)
         /\ \A m : MergeStands(v, n, m) => MergeStands(v, k, m)
<1>1. \A f \in AllFiles(v) : f.number \in Nat
  BY VersionFilesAreFiles
<1>2. Numbered(v, n) => Numbered(v, k)
  <2> SUFFICES ASSUME Numbered(v, n), NEW f \in AllFiles(v) PROVE f.number < k
    BY DEF Numbered
  <2>1. f.number \in Nat /\ f.number < n
    BY <1>1 DEF Numbered
  <2> QED BY <2>1
<1>3. ASSUME NEW m, MergeStands(v, n, m) PROVE MergeStands(v, k, m)
  <2>1. FilesOf(v[m.c.level + 1]) \ FilesOf(v[m.c.level + 1]) = {} /\ AllFiles(v) \ AllFiles(v) = {}
    OBVIOUS
  <2> QED BY <1>3, <2>1, MergeStillStands
<1> QED BY <1>2, <1>3

\* CompactMemTable keeps the levels in order, during a compaction too.
LEMMA FlushKeepsInv ==
  ASSUME ClientsInv, VersionInv, CompactionInv, FlushImm, UNCHANGED compaction
  PROVE  VersionInv' /\ CompactionInv'
<1>1. next_file' = next_file + 1 /\ next_file \in Nat /\ next_file' \in Nat /\ next_file <= next_file'
  BY DEF FlushImm, VersionInv
<1>2. Version(version) /\ Numbered(version, next_file)
  BY DEF VersionInv
<1>3. CASE imm = {}
  <2>1. version' = ApplyEdit(version, {}, {}) /\ file_to_compact' = NULL
    BY <1>3 DEF FlushImm, LogAndApply
  <2>2. /\ Version(ApplyEdit(version, {}, {})) /\ Numbered(ApplyEdit(version, {}, {}), next_file')
        /\ \A m : MergeStands(version, next_file, m)
                    => MergeStands(ApplyEdit(version, {}, {}), next_file', m)
    BY <1>1, <1>2, EmptyEdit
  <2> QED BY <1>1, <2>1, <2>2 DEF VersionInv, CompactionInv, Charged
<1>4. CASE imm # {}
  <2> DEFINE a == FlushedFile(version, next_file, imm)
  <2>1. version' = ApplyEdit(version, {}, {a}) /\ file_to_compact' = NULL
    BY <1>4 DEF FlushImm, LogAndApply, FlushedFile
  <2>2. imm \in SUBSET Entry /\ IsFiniteSet(imm)
    BY DEF FlushImm, ClientsInv
  <2>3. /\ Version(ApplyEdit(version, {}, {a})) /\ Numbered(ApplyEdit(version, {}, {a}), next_file + 1)
        /\ \A m : MergeStands(version, next_file, m)
                    => MergeStands(ApplyEdit(version, {}, {a}), next_file + 1, m)
    BY <1>1, <1>2, <1>4, <2>2, FlushedVersion
  <2> HIDE DEF a
  <2> QED BY <1>1, <2>1, <2>3 DEF VersionInv, CompactionInv, Charged
<1> QED BY <1>3, <1>4

\* A compaction is started with inputs and outputs that may be installed later.
LEMMA StartKeepsInv ==
  ASSUME ClientsInv, VersionInv, NEW level \in 0 .. kNumLevels - 2, NEW c,
         Inputs(version, level, c), StartCompaction(c, FALSE),
         UNCHANGED <<version, file_to_compact>>
  PROVE  VersionInv' /\ CompactionInv'
<1> DEFINE out == CompactionOutputs(version, c, SmallestSnapshot)
           P == Kept(version, c, SmallestSnapshot, MergeInput(c))
           m == [c |-> c, is_manual |-> FALSE, outputs |-> NewFiles(c, next_file, out)]
<1>1. compaction' = m /\ next_file' = next_file + Len(out)
  BY DEF StartCompaction, NewFiles
<1>2. Version(version) /\ next_file \in Nat /\ Numbered(version, next_file)
      /\ Charged(version, file_to_compact)
  BY DEF VersionInv
<1>3. c.inputs0 \in Seq(File) /\ c.inputs1 \in Seq(File) /\ c.grandparents \in Seq(File)
  BY DEF Inputs, Chosen
<1>4. InPieces(out, P) /\ P \subseteq InputEntries(c)
  <2> HIDE DEF out, P
  <2>1. /\ InPieces(CompactionOutputs(version, c, SmallestSnapshot),
                    Kept(version, c, SmallestSnapshot, MergeInput(c)))
        /\ Kept(version, c, SmallestSnapshot, MergeInput(c))
             \subseteq UNION {f.entries : f \in FilesOf(c.inputs0) \cup FilesOf(c.inputs1)}
    BY ONLY <1>3, OutputsInPieces
  <2> QED BY <2>1 DEF out, P, InputEntries, InputFiles
<1>5. InputsStand(version, c)
  BY <1>2, InputsAreThere
<1> HIDE DEF out, P
<1>6. OutputsStand(version, next_file + Len(out), m) /\ next_file + Len(out) \in Nat
  <2>1. \A f \in AllFiles(version) : f.number \in Nat
    BY <1>2, VersionFilesAreFiles
  <2>2. m.c = c /\ m.outputs = NewFiles(c, next_file, out)
    OBVIOUS
  <2> HIDE DEF m
  <2> QED BY <1>2, <1>4, <2>1, <2>2, OutputsAreGood
<1>7. MergeStands(version, next_file', m)
  BY <1>1, <1>5, <1>6 DEF MergeStands
<1>8. Numbered(version, next_file')
  <2>1. Len(out) \in Nat
    BY <1>4 DEF InPieces
  <2>2. next_file <= next_file' /\ next_file' \in Nat
    BY <1>1, <1>2, <2>1
  <2> QED BY <1>2, <2>2, MoreNumbers
<1> HIDE DEF m
<1> QED BY <1>1, <1>2, <1>6, <1>7, <1>8 DEF VersionInv, CompactionInv

\* Readers look for internal keys.
LEMMA LookupKeyIsKey ==
  ASSUME ClientsInv, NEW k \in Keys, NEW s \in ReadPoints
  PROVE  LookupKey(k, s) \in IKey
<1>1. k \in Int /\ s \in Nat
  BY LSMAssumption DEF ClientsInv, ReadPoints, LastSequence
<1> QED BY <1>1 DEF LookupKey, InternalKey, IKey, kValueTypeForSeek, kTypeValue

\* UpdateStats charges a file of the version.
LEMMA StatsKeepInv ==
  ASSUME VersionInv, NEW probe, Charged(version, probe), UpdateStats(probe),
         UNCHANGED <<version, next_file>>
  PROVE  VersionInv'
<1>1. file_to_compact' = probe \/ file_to_compact' = file_to_compact
  BY DEF UpdateStats
<1> QED BY <1>1 DEF VersionInv, Charged

\* No step of the database puts the levels out of order.
LEMMA LevelsStep ==
  ASSUME MaxRangeCalls = 0, LevelsInv, [Next]_vars
  PROVE  LevelsInv'
<1> USE DEF LevelsInv
<1>1. CASE Write
  <2>1. PICK script \in Scripts : /\ LastSequence < MaxWrites
                                  /\ history' = Append(history, script[LastSequence + 1])
                                  /\ mem' = mem \cup {InternalKey(script[LastSequence + 1].key,
                                              LastSequence + 1, script[LastSequence + 1].type)}
    BY <1>1 DEF Write
  <2>2. LastSequence \in Nat /\ LastSequence + 1 \in 1 .. MaxWrites
    BY <2>1, LSMAssumption DEF ClientsInv, LastSequence
  <2>3. script[LastSequence + 1] \in [key : Keys, type : {kTypeDeletion, kTypeValue}]
    BY <2>1, <2>2, LSMAssumption
  <2>4. /\ history' \in Seq([key : Keys, type : {kTypeDeletion, kTypeValue}])
        /\ Len(history') <= MaxWrites
    <3> DEFINE op == script[LastSequence + 1]
               T == [key : Keys, type : {kTypeDeletion, kTypeValue}]
    <3>1. history \in Seq(T) /\ op \in T /\ history' = Append(history, op)
      BY <2>1, <2>3 DEF ClientsInv
    <3> HIDE DEF op, T
    <3>2. history' \in Seq(T) /\ Len(history') = Len(history) + 1
      BY <3>1
    <3> QED BY <2>2, <3>2 DEF T, LastSequence
  <2>5. mem' \in SUBSET Entry /\ IsFiniteSet(mem')
    <3> DEFINE e == InternalKey(script[LastSequence + 1].key, LastSequence + 1,
                                script[LastSequence + 1].type)
    <3>1. e \in Entry
      BY <2>2, <2>3 DEF InternalKey, Entry
    <3>2. mem' = mem \cup {e}
      BY <2>1
    <3> HIDE DEF e
    <3> QED BY <3>1, <3>2, FS_AddElement DEF ClientsInv
  <2> QED BY <1>1, <2>4, <2>5 DEF Write, ClientsInv, VersionInv, CompactionInv
<1>2. CASE MakeRoomForWrite
  <2>1. /\ next_file' = next_file + 1 /\ next_file \in Nat /\ next_file' \in Nat /\ next_file <= next_file'
        /\ UNCHANGED <<version, file_to_compact, compaction>>
    BY <1>2 DEF MakeRoomForWrite, SwitchMemTable, VersionInv
  <2>2. VersionInv' /\ CompactionInv'
    BY <2>1, MoreNumbers DEF VersionInv, CompactionInv
  <2>3. ClientsInv'
    BY <1>2, FS_EmptySet DEF MakeRoomForWrite, SwitchMemTable, ClientsInv
  <2> QED BY <2>2, <2>3
<1>3. CASE GetSnapshot
  <2>1. LastSequence \in Nat
    BY DEF LastSequence, ClientsInv
  <2> QED BY <1>3, <2>1 DEF GetSnapshot, ClientsInv, VersionInv, CompactionInv
<1>4. CASE ReleaseSnapshot
  BY <1>4 DEF ReleaseSnapshot, ClientsInv, VersionInv, CompactionInv
<1>5. ASSUME NEW k \in Keys, NEW s \in ReadPoints, Get(k, s) PROVE LevelsInv'
  <2>1. Charged(version, VersionGet(version, LookupKey(k, s)).seek_file)
    BY LookupKeyIsKey, SeeksAreCharged DEF VersionInv
  <2>2. /\ UpdateStats(VersionGet(version, LookupKey(k, s)).seek_file)
        /\ UNCHANGED <<history, mem, imm, version, next_file, snapshots, compaction, manual, range, calls>>
    BY <1>5 DEF Get
  <2>3. VersionInv'
    BY <2>1, <2>2, StatsKeepInv
  <2> QED BY <2>2, <2>3 DEF ClientsInv, CompactionInv
<1>6. ASSUME NEW f \in VersionFiles(version), NEW e \in f.entries, RecordReadSample(e)
      PROVE  LevelsInv'
  <2>1. e \in IKey
    <3>1. f \in File
      BY VersionFilesAreFiles DEF VersionInv, VersionFiles, AllFiles
    <3> QED BY <3>1, FileBounds, EntriesAreKeys
  <2>2. Charged(version, ReadSampleFile(version, e))
    BY <2>1, SeeksAreCharged DEF VersionInv
  <2>3. /\ UpdateStats(ReadSampleFile(version, e))
        /\ UNCHANGED <<history, mem, imm, version, next_file, snapshots, compaction, manual, range, calls>>
    BY <1>6 DEF RecordReadSample
  <2>4. VersionInv'
    BY <2>2, <2>3, StatsKeepInv
  <2> QED BY <2>3, <2>4 DEF ClientsInv, CompactionInv
<1>7. CASE CompactRangeCall
  BY <1>7 DEF CompactRangeCall, ClientsInv
<1>8. CASE ForceMemTable
  BY <1>8 DEF ForceMemTable, ClientsInv
<1>9. CASE TEST_CompactRange
  BY <1>9 DEF TEST_CompactRange, ClientsInv
<1>10. CASE CompactMemTable
  <2>1. FlushImm /\ UNCHANGED <<history, mem, snapshots, compaction, manual, range, calls>> /\ imm' = NULL
    BY <1>10 DEF CompactMemTable, FlushImm
  <2> QED BY <2>1, FlushKeepsInv DEF ClientsInv
<1>11. CASE BackgroundManual
  BY <1>11 DEF BackgroundManual, ClientsInv
<1>12. CASE BackgroundAutomatic
  <2> DEFINE c == PickCompaction(version, compact_pointer, file_to_compact)
  <2>1. /\ UNCHANGED <<history, mem, imm, snapshots, manual, range, calls>>
        /\ compaction = NULL /\ NeedsCompaction(version, file_to_compact)
    BY <1>12 DEF BackgroundAutomatic
  <2>2. version \in [Levels -> Seq(File)] /\ Charged(version, file_to_compact)
    BY DEF VersionInv, Version
  <2>3. PICK level \in 0 .. kNumLevels - 2 : Inputs(version, level, c)
    BY <2>1, <2>2, PickIsGood
  <2> HIDE DEF c
  <2>4. CASE IsTrivialMove(c)
    <3>1. /\ LogAndApply({<<c.level, c.inputs0[1]>>}, {<<c.level + 1, c.inputs0[1]>>})
          /\ UNCHANGED <<compaction, next_file>>
      BY <1>12, <2>4 DEF BackgroundAutomatic, c
    <3>2. Version(version') /\ Numbered(version', next_file)
      BY <2>3, <2>4, <3>1, MovedVersion DEF LogAndApply, VersionInv
    <3>3. VersionInv'
      BY <3>1, <3>2 DEF VersionInv, LogAndApply, Charged
    <3> QED BY <2>1, <3>1, <3>3 DEF ClientsInv, CompactionInv
  <2>5. CASE ~IsTrivialMove(c)
    <3>1. StartCompaction(c, FALSE) /\ UNCHANGED <<version, file_to_compact>>
      BY <1>12, <2>5 DEF BackgroundAutomatic, c
    <3>2. VersionInv' /\ CompactionInv'
      BY <2>3, <3>1, StartKeepsInv
    <3> QED BY <2>1, <3>2 DEF ClientsInv
  <2> QED BY <2>4, <2>5
<1>13. CASE InstallCompactionResults
  <2>1. /\ compaction # NULL /\ compaction' = NULL
        /\ LogAndApply(AddInputDeletions(compaction.c), compaction.outputs)
        /\ UNCHANGED <<history, mem, imm, next_file, snapshots, calls>>
    BY <1>13 DEF InstallCompactionResults
  <2>2. MergeStands(version, next_file, compaction)
    BY <2>1 DEF CompactionInv
  <2>3. UNCHANGED <<manual, range>>
    BY <1>13, <2>2 DEF InstallCompactionResults, MergeStands
  <2>4. Version(version') /\ Numbered(version', next_file)
    BY <2>1, <2>2, InstalledVersion DEF LogAndApply, VersionInv
  <2>5. VersionInv'
    BY <2>1, <2>4 DEF VersionInv, LogAndApply, Charged
  <2> QED BY <2>1, <2>3, <2>5 DEF ClientsInv, CompactionInv
<1>14. CASE UNCHANGED vars
  BY <1>14 DEF vars, ClientsInv, VersionInv, CompactionInv
<1> QED BY <1>1, <1>2, <1>3, <1>4, <1>5, <1>6, <1>7, <1>8, <1>9, <1>10, <1>11, <1>12, <1>13, <1>14
        DEF Next, BackgroundThread

\* MaybeAddFile and SaveTo assert it, FindFile's binary search relies on it:
\* whatever flushes, moves and merges come together, the files of a level above
\* 0 stay sorted and disjoint, as long as no one calls CompactRange (whose
\* bounded inputs may leave a gap that a flush fills, see the run lsm_gap).
THEOREM LevelsStayInOrder ==
  ASSUME MaxRangeCalls = 0 PROVE Spec => []LevelsDisjoint
<1>1. Init => LevelsInv
  BY LevelsInvInit
<1>2. LevelsInv /\ [Next]_vars => LevelsInv'
  BY LevelsStep
<1>3. LevelsInv => LevelsDisjoint
  <2> SUFFICES ASSUME LevelsInv, NEW level \in Levels \ {0}, NEW i \in 2 .. Len(version[level])
               PROVE  Less(version[level][i - 1].largest, version[level][i].smallest)
    BY DEF LevelsDisjoint
  <2>1. version[level] \in Seq(File) /\ InOrder(version[level])
    BY DEF LevelsInv, VersionInv, Version
  <2>2. i \in DOMAIN version[level] /\ i - 1 \in DOMAIN version[level] /\ i - 1 < i
    BY <2>1
  <2> QED BY <2>1, <2>2 DEF InOrder
<1> QED BY <1>1, <1>2, <1>3, PTL DEF Spec

-----------------------------------------------------------------------------
(* Every entry is in one place                                             *)

\* The entries in S are newer than those in T.
Later(S, T) == \A e \in S, o \in T : e.seq > o.seq

Contents(v) == UNION {f.entries : f \in AllFiles(v)}

\* No two files share an entry, and no file is in two levels.
Distinct(v) ==
  /\ \A f, g \in AllFiles(v) : f # g => f.entries \cap g.entries = {}
  /\ \A l1, l2 \in Levels : l1 # l2 => FilesOf(v[l1]) \cap FilesOf(v[l2]) = {}

AgesInv ==
  /\ \A e \in mem \cup MemEntries(imm) \cup Contents(version) : e.seq <= Len(history)
  /\ Later(mem, MemEntries(imm)) /\ Later(mem, Contents(version))
  /\ Later(MemEntries(imm), Contents(version))

EntriesInv == AgesInv /\ Distinct(version)

\* Tables hold entries.
LEMMA ContentsAreEntries ==
  ASSUME NEW v, Version(v)
  PROVE  Contents(v) \subseteq Entry /\ \A e \in Contents(v) : e.seq \in Nat
<1>1. AllFiles(v) \subseteq File
  BY VersionFilesAreFiles
<1>2. \A f \in File : f.entries \subseteq Entry
  BY FileBounds
<1>3. Contents(v) \subseteq Entry
  BY <1>1, <1>2 DEF Contents
<1> QED BY <1>3, EntriesAreKeys

\* What is apart shares no entry.
LEMMA ApartIsDisjoint ==
  ASSUME NEW f \in File, NEW g \in File, Apart(f, g)
  PROVE  f.entries \cap g.entries = {}
<1>1. \A x \in File : /\ x.smallest \in IKey /\ x.largest \in IKey
                      /\ \A e \in x.entries : e \in IKey /\ LessEq(x.smallest, e) /\ LessEq(e, x.largest)
  BY FileBounds, EntriesAreKeys
<1>2. ASSUME NEW x \in File, NEW y \in File, Less(x.largest, y.smallest), NEW e \in x.entries, e \in y.entries
      PROVE  FALSE
  <2>1. /\ e \in IKey /\ x.largest \in IKey /\ y.smallest \in IKey
        /\ LessEq(e, x.largest) /\ LessEq(y.smallest, e)
    BY <1>1, <1>2
  <2>2. Less(e, y.smallest)
    BY <1>2, <2>1, KeyOrder
  <2>3. Less(e, e)
    BY <2>1, <2>2, KeyOrder
  <2> QED BY <2>1, <2>3, KeyOrder
<1> QED BY <1>2 DEF Apart

\* The inputs of a compaction give way to files of their entries.
LEMMA ReplacedIsDistinct ==
  ASSUME NEW v, Version(v), Distinct(v), NEW c, InputsStand(v, c),
         NEW made \in SUBSET File, \A f \in made : f.entries \subseteq InputEntries(c),
         \A f, g \in made : f # g => Apart(f, g),
         \A f \in made : f \in AllFiles(v) => f \in FilesOf(c.inputs0),
         NEW w, LevelsReplaced(v, c, made, w)
  PROVE  Distinct(w) /\ Contents(w) \subseteq Contents(v)
<1>1. c.level \in Levels /\ c.level + 1 \in Levels /\ c.level \in 0 .. kNumLevels - 2
  BY MergeLevels
<1>2. /\ FilesOf(c.inputs0) \subseteq FilesOf(v[c.level])
      /\ FilesOf(c.inputs1) \subseteq FilesOf(v[c.level + 1])
  BY DEF InputsStand
<1>3. \A level \in Levels : FilesOf(v[level]) \subseteq File /\ FilesOf(v[level]) \subseteq AllFiles(v)
  BY VersionFilesAreFiles
<1>4. InputFiles(c) \subseteq AllFiles(v)
  BY <1>1, <1>2, <1>3 DEF InputFiles
<1>5. ASSUME NEW f \in made, NEW o \in f.entries
      PROVE  \E h \in InputFiles(c) : o \in h.entries
  BY DEF InputEntries
<1>6. ASSUME NEW level \in Levels, NEW f \in FilesOf(w[level])
      PROVE  /\ f \in FilesOf(v[level]) \/ (level = c.level + 1 /\ f \in made)
             /\ level = c.level => f \notin FilesOf(c.inputs0)
             /\ level = c.level + 1 => f \in made \/ f \notin FilesOf(c.inputs1)
  <2>1. f \in Replaced(v, c, made, level)
    BY <1>6 DEF LevelsReplaced
  <2>2. level = c.level => level # c.level + 1
    BY <1>1
  <2> QED BY ONLY <2>1, <2>2 DEF Replaced
<1>7. \A l1, l2 \in Levels : \A f : f \in FilesOf(v[l1]) /\ f \in FilesOf(v[l2]) => l1 = l2
  BY DEF Distinct
<1>8. ASSUME NEW level \in Levels, NEW f \in FilesOf(w[level]), f \notin made
      PROVE  f \in AllFiles(v) /\ f \notin InputFiles(c)
  <2>1. f \in FilesOf(v[level])
    BY <1>6, <1>8
  <2>2. f \notin FilesOf(c.inputs0)
    BY <1>1, <1>2, <1>6, <1>7, <2>1
  <2>3. f \notin FilesOf(c.inputs1)
    BY <1>1, <1>2, <1>6, <1>7, <1>8, <2>1
  <2> QED BY <1>3, <2>1, <2>2, <2>3 DEF InputFiles
<1>9. ASSUME NEW f \in made, NEW g \in AllFiles(v), g \notin InputFiles(c)
      PROVE  f.entries \cap g.entries = {}
  <2> SUFFICES ASSUME NEW o \in f.entries, o \in g.entries PROVE FALSE
    OBVIOUS
  <2>1. PICK h \in InputFiles(c) : o \in h.entries
    BY <1>5
  <2> QED BY <1>4, <1>9, <2>1 DEF Distinct
<1>10. ASSUME NEW f \in AllFiles(w), NEW g \in AllFiles(w), f # g
       PROVE  f.entries \cap g.entries = {}
  <2>1. /\ f \in made \/ (f \in AllFiles(v) /\ f \notin InputFiles(c))
        /\ g \in made \/ (g \in AllFiles(v) /\ g \notin InputFiles(c))
    BY <1>8 DEF AllFiles
  <2>2. CASE f \in made /\ g \in made
    <3>1. Apart(f, g)
      BY <1>10, <2>2
    <3> QED BY <2>2, <3>1, ApartIsDisjoint
  <2>3. CASE f \in AllFiles(v) /\ g \in AllFiles(v)
    BY <1>10, <2>3 DEF Distinct
  <2> QED BY <1>9, <2>1, <2>2, <2>3
<1>11. ASSUME NEW l1 \in Levels, NEW l2 \in Levels, NEW f \in FilesOf(w[l1]), f \in FilesOf(w[l2])
       PROVE  l1 = l2
  <2>1. ASSUME NEW k \in Levels, f \in FilesOf(w[k]), f \in FilesOf(v[k]), f \in made PROVE k = c.level + 1
    <3>1. f \in FilesOf(c.inputs0) /\ f \in FilesOf(v[c.level])
      BY <1>2, <1>3, <2>1
    <3>2. k = c.level
      BY <1>1, <1>7, <2>1, <3>1
    <3> QED BY <1>6, <2>1, <3>1, <3>2
  <2>2. f \in made => l1 = c.level + 1 /\ l2 = c.level + 1
    BY <1>6, <1>11, <2>1
  <2>3. f \notin made => f \in FilesOf(v[l1]) /\ f \in FilesOf(v[l2])
    BY <1>6, <1>11
  <2> QED BY <1>7, <2>2, <2>3
<1>12. Contents(w) \subseteq Contents(v)
  <2> SUFFICES ASSUME NEW level \in Levels, NEW f \in FilesOf(w[level]), NEW o \in f.entries
               PROVE  \E h \in AllFiles(v) : o \in h.entries
    BY DEF Contents, AllFiles
  <2>1. CASE f \in made
    BY <1>4, <1>5, <2>1
  <2> QED BY <1>8, <2>1
<1> QED BY <1>10, <1>11, <1>12 DEF Distinct

\* A flushed table has entries of its own, newer than those of the others.
LEMMA FlushIsDistinct ==
  ASSUME NEW v, Version(v), Distinct(v), NEW S, Later(S, Contents(v)),
         NEW a, a[1] \in Levels, a[2].entries = S, a[2] \notin AllFiles(v),
         NEW w, \A level \in Levels : FilesOf(w[level])
                  = FilesOf(v[level]) \cup (IF level = a[1] THEN {a[2]} ELSE {})
  PROVE  Distinct(w) /\ Contents(w) \subseteq Contents(v) \cup S
<1>1. AllFiles(w) \subseteq AllFiles(v) \cup {a[2]}
  BY DEF AllFiles
<1>2. ASSUME NEW f \in AllFiles(v) PROVE f.entries \cap S = {}
  <2>1. f.entries \subseteq Contents(v)
    BY DEF Contents
  <2>2. \A e \in Contents(v) : e.seq \in Nat
    BY ContentsAreEntries
  <2>3. \A e \in S, o \in f.entries : e # o
    BY <2>1, <2>2 DEF Later
  <2> QED BY <2>3
<1>3. \A f, g \in AllFiles(w) : f # g => f.entries \cap g.entries = {}
  BY <1>1, <1>2 DEF Distinct
<1>4. ASSUME NEW l1 \in Levels, NEW l2 \in Levels, l1 # l2
      PROVE  FilesOf(w[l1]) \cap FilesOf(w[l2]) = {}
  <2>1. FilesOf(v[l1]) \cap FilesOf(v[l2]) = {}
    BY <1>4 DEF Distinct
  <2>2. a[2] \notin FilesOf(v[l1]) /\ a[2] \notin FilesOf(v[l2])
    BY DEF AllFiles
  <2> QED BY <1>4, <2>1, <2>2
<1>5. Contents(w) \subseteq Contents(v) \cup S
  BY <1>1 DEF Contents
<1> QED BY <1>3, <1>4, <1>5 DEF Distinct

\* An empty database holds every entry once.
LEMMA EntriesInvInit == Init => EntriesInv
<1> SUFFICES ASSUME Init PROVE EntriesInv
  OBVIOUS
<1>1. \A level \in Levels : FilesOf(version[level]) = {}
  BY DEF Init, FilesOf
<1>2. AllFiles(version) = {} /\ Contents(version) = {}
  BY <1>1 DEF AllFiles, Contents
<1>3. Distinct(version)
  BY <1>1, <1>2 DEF Distinct
<1>4. AgesInv
  BY <1>2 DEF AgesInv, Later, MemEntries, Init
<1> QED BY <1>3, <1>4 DEF EntriesInv

\* CompactMemTable: the immutable memtable becomes a table, newer than the others.
LEMMA FlushKeepsEntries ==
  ASSUME LevelsInv, EntriesInv, CompactMemTable
  PROVE  EntriesInv'
<1>1. /\ imm # NULL /\ imm' = NULL /\ UNCHANGED <<history, mem>>
      /\ MemEntries(imm) = imm /\ MemEntries(imm)' = {}
      /\ imm \in SUBSET Entry /\ IsFiniteSet(imm)
  BY DEF CompactMemTable, FlushImm, MemEntries, LevelsInv, ClientsInv
<1>2. Version(version) /\ next_file \in Nat /\ Numbered(version, next_file)
  BY DEF LevelsInv, VersionInv
<1>3. Distinct(version') /\ Contents(version') \subseteq Contents(version) \cup imm
  <2>1. CASE imm = {}
    <3>1. version' = ApplyEdit(version, {}, {})
      BY <2>1 DEF CompactMemTable, FlushImm, LogAndApply
    <3>2. \A level \in Levels : FilesOf(version'[level]) = FilesOf(version[level])
      <4>1. next_file <= next_file
        BY <1>2
      <4> QED BY <1>2, <3>1, <4>1, EmptyEdit
    <3>3. AllFiles(version') = AllFiles(version)
      BY <3>2 DEF AllFiles
    <3> QED BY <3>2, <3>3 DEF Contents, Distinct, EntriesInv
  <2>2. CASE imm # {}
    <3> DEFINE a == FlushedFile(version, next_file, imm)
    <3>1. version' = ApplyEdit(version, {}, {a})
      BY <2>2 DEF CompactMemTable, FlushImm, LogAndApply, FlushedFile
    <3>2. \A level \in Levels : FilesOf(version'[level])
             = FilesOf(version[level]) \cup (IF level = a[1] THEN {a[2]} ELSE {})
      BY <1>1, <1>2, <2>2, <3>1, FlushedVersion
    <3>3. a[1] \in Levels /\ a[2].entries = imm /\ a[2].number = next_file
      BY <1>1, <1>2, <2>2, FlushedFileIsApart
    <3> HIDE DEF a
    <3>4. a[2] \notin AllFiles(version)
      BY <1>2, <3>3 DEF Numbered
    <3>5. Distinct(version) /\ Later(imm, Contents(version))
      BY <1>1 DEF EntriesInv, AgesInv
    <3> QED BY ONLY <1>2, <3>2, <3>3, <3>4, <3>5, FlushIsDistinct
  <2> QED BY <2>1, <2>2
<1>4. AgesInv'
  BY <1>1, <1>3 DEF EntriesInv, AgesInv, Later
<1> QED BY <1>3, <1>4 DEF EntriesInv

\* InstallCompactionResults: the outputs take the place of their inputs.
LEMMA InstallKeepsEntries ==
  ASSUME LevelsInv, EntriesInv, InstallCompactionResults
  PROVE  EntriesInv'
<1>1. /\ compaction # NULL /\ UNCHANGED <<history, mem, imm>>
      /\ version' = ApplyEdit(version, AddInputDeletions(compaction.c), compaction.outputs)
  BY DEF InstallCompactionResults, LogAndApply
<1>2. Version(version) /\ next_file \in Nat /\ Numbered(version, next_file)
      /\ MergeStands(version, next_file, compaction) /\ InputsStand(version, compaction.c)
      /\ OutputsStand(version, next_file, compaction)
  BY <1>1 DEF LevelsInv, VersionInv, CompactionInv, MergeStands
<1>3. LevelsReplaced(version, compaction.c, Made(compaction), version')
  BY <1>1, <1>2, InstalledVersion DEF LevelsReplaced
<1>4. /\ Made(compaction) \in SUBSET File
      /\ \A f \in Made(compaction) : f.entries \subseteq InputEntries(compaction.c)
      /\ \A f, g \in Made(compaction) : f # g => Apart(f, g)
      /\ \A f \in Made(compaction) : f \in AllFiles(version) => f \in FilesOf(compaction.c.inputs0)
  BY <1>2 DEF OutputsStand, Made
<1>5. Distinct(version') /\ Contents(version') \subseteq Contents(version)
  BY <1>2, <1>3, <1>4, ReplacedIsDistinct DEF EntriesInv
<1>6. AgesInv'
  BY <1>1, <1>5 DEF EntriesInv, AgesInv, Later, MemEntries
<1> QED BY <1>5, <1>6 DEF EntriesInv

\* BackgroundCompaction: a file moves, or a compaction starts.
LEMMA AutomaticKeepsEntries ==
  ASSUME LevelsInv, EntriesInv, BackgroundAutomatic
  PROVE  EntriesInv'
<1> DEFINE c == PickCompaction(version, compact_pointer, file_to_compact)
<1>1. /\ UNCHANGED <<history, mem, imm>>
      /\ compaction = NULL /\ NeedsCompaction(version, file_to_compact)
  BY DEF BackgroundAutomatic
<1>2. /\ version \in [Levels -> Seq(File)] /\ Charged(version, file_to_compact)
      /\ Version(version) /\ next_file \in Nat /\ Numbered(version, next_file) /\ Distinct(version)
  BY DEF LevelsInv, VersionInv, Version, EntriesInv
<1>3. PICK level \in 0 .. kNumLevels - 2 : Inputs(version, level, c)
  BY <1>1, <1>2, PickIsGood
<1> HIDE DEF c
<1>4. CASE IsTrivialMove(c)
  <2>1. version' = ApplyEdit(version, {<<c.level, c.inputs0[1]>>}, {<<c.level + 1, c.inputs0[1]>>})
    BY <1>1, <1>4 DEF BackgroundAutomatic, LogAndApply, c
  <2>2. LevelsReplaced(version, c, {c.inputs0[1]}, version') /\ FilesOf(c.inputs0) = {c.inputs0[1]}
    BY <1>2, <1>3, <1>4, <2>1, MovedVersion
  <2> DEFINE f == c.inputs0[1]
  <2>3. LevelsReplaced(version, c, {f}, version') /\ FilesOf(c.inputs0) = {f}
    BY <2>2
  <2> HIDE DEF f
  <2>4. InputsStand(version, c)
    BY <1>2, <1>3, InputsAreThere
  <2>5. {f} \in SUBSET File
    <3>1. c.inputs0 \in Seq(File)
      BY <2>4 DEF InputsStand
    <3> QED BY <2>3, <3>1, FilesAreFinite
  <2>6. /\ \A g \in {f} : g.entries \subseteq InputEntries(c)
        /\ \A g, h \in {f} : g # h => Apart(g, h)
        /\ \A g \in {f} : g \in AllFiles(version) => g \in FilesOf(c.inputs0)
    BY <2>3 DEF InputEntries, InputFiles
  <2>7. Distinct(version') /\ Contents(version') \subseteq Contents(version)
    BY <1>2, <2>3, <2>4, <2>5, <2>6, ReplacedIsDistinct
  <2>8. AgesInv'
    BY <1>1, <2>7 DEF EntriesInv, AgesInv, Later, MemEntries
  <2> QED BY <2>7, <2>8 DEF EntriesInv
<1>5. CASE ~IsTrivialMove(c)
  <2>1. UNCHANGED version
    BY <1>5 DEF BackgroundAutomatic, c
  <2> QED BY <1>1, <2>1 DEF EntriesInv, AgesInv, MemEntries
<1> QED BY <1>4, <1>5

\* No step of the database puts an entry into two files.
LEMMA EntriesStep ==
  ASSUME MaxRangeCalls = 0, LevelsInv, EntriesInv, [Next]_vars
  PROVE  EntriesInv'
<1>1. CASE Write
  <2>1. PICK e : /\ mem' = mem \cup {e} /\ e.seq = Len(history) + 1
                 /\ Len(history') = Len(history) + 1 /\ Len(history) \in Nat
                 /\ UNCHANGED <<imm, version>>
    <3>1. PICK script \in Scripts : /\ history' = Append(history, script[LastSequence + 1])
                                    /\ mem' = mem \cup {InternalKey(script[LastSequence + 1].key,
                                              LastSequence + 1, script[LastSequence + 1].type)}
      BY <1>1 DEF Write
    <3> DEFINE op == script[LastSequence + 1]
    <3>2. history \in Seq([key : Keys, type : {kTypeDeletion, kTypeValue}])
      BY DEF LevelsInv, ClientsInv
    <3>3. history' = Append(history, op)
      BY <3>1
    <3> HIDE DEF op
    <3>4. Len(history') = Len(history) + 1 /\ Len(history) \in Nat
      BY <3>2, <3>3
    <3> WITNESS InternalKey(script[LastSequence + 1].key, LastSequence + 1, script[LastSequence + 1].type)
    <3> QED BY <1>1, <3>1, <3>4 DEF Write, InternalKey, LastSequence
  <2>2. \A o \in mem \cup MemEntries(imm) \cup Contents(version) : o.seq \in Nat /\ o.seq <= Len(history)
    <3>1. \A o \in Entry : o.seq \in Nat
      BY EntriesAreKeys
    <3>2. mem \subseteq Entry /\ MemEntries(imm) \subseteq Entry
      BY DEF LevelsInv, ClientsInv, MemEntries
    <3>3. Contents(version) \subseteq Entry
      BY ContentsAreEntries DEF LevelsInv, VersionInv
    <3> QED BY <3>1, <3>2, <3>3 DEF EntriesInv, AgesInv
  <2>3. \A o \in mem' \cup MemEntries(imm) \cup Contents(version) : o.seq <= Len(history')
    BY <2>1, <2>2
  <2>4. Later(mem', MemEntries(imm)) /\ Later(mem', Contents(version))
    BY <2>1, <2>2 DEF EntriesInv, AgesInv, Later
  <2> QED BY <2>1, <2>3, <2>4 DEF EntriesInv, AgesInv, MemEntries
<1>2. CASE MakeRoomForWrite
  <2>1. /\ imm = NULL /\ imm' = mem /\ mem' = {} /\ UNCHANGED <<history, version>>
    BY <1>2 DEF MakeRoomForWrite, SwitchMemTable
  <2>2. MemEntries(imm)' \subseteq mem /\ MemEntries(imm) = {}
    BY <2>1 DEF MemEntries
  <2>3. AgesInv'
    BY <2>1, <2>2 DEF EntriesInv, AgesInv, Later
  <2> QED BY <2>1, <2>3 DEF EntriesInv
<1>3. CASE GetSnapshot
  BY <1>3 DEF GetSnapshot, EntriesInv, AgesInv, MemEntries
<1>4. CASE ReleaseSnapshot
  BY <1>4 DEF ReleaseSnapshot, EntriesInv, AgesInv, MemEntries
<1>5. ASSUME NEW k \in Keys, NEW s \in ReadPoints, Get(k, s) PROVE EntriesInv'
  BY <1>5 DEF Get, EntriesInv, AgesInv, MemEntries
<1>6. ASSUME NEW f \in VersionFiles(version), NEW e \in f.entries, RecordReadSample(e)
      PROVE  EntriesInv'
  BY <1>6 DEF RecordReadSample, EntriesInv, AgesInv, MemEntries
<1>7. CASE CompactRangeCall
  BY <1>7 DEF CompactRangeCall, LevelsInv, ClientsInv
<1>8. CASE ForceMemTable
  BY <1>8 DEF ForceMemTable, LevelsInv, ClientsInv
<1>9. CASE TEST_CompactRange
  BY <1>9 DEF TEST_CompactRange, LevelsInv, ClientsInv
<1>10. CASE CompactMemTable
  BY <1>10, FlushKeepsEntries
<1>11. CASE BackgroundManual
  BY <1>11 DEF BackgroundManual, LevelsInv, ClientsInv
<1>12. CASE BackgroundAutomatic
  BY <1>12, AutomaticKeepsEntries
<1>13. CASE InstallCompactionResults
  BY <1>13, InstallKeepsEntries
<1>14. CASE UNCHANGED vars
  BY <1>14 DEF vars, EntriesInv, AgesInv, MemEntries
<1> QED BY <1>1, <1>2, <1>3, <1>4, <1>5, <1>6, <1>7, <1>8, <1>9, <1>10, <1>11, <1>12, <1>13, <1>14
        DEF Next, BackgroundThread

-----------------------------------------------------------------------------
(* Newer entries in smaller levels                                         *)

\* Of one key, the entries in S are newer than those in T.
Newer(S, T) == \A e \in S, o \in T : e.key = o.key => e.seq > o.seq

\* Smaller levels are newer, and a level above 0 has a user key in one file.
LevelsAreNewer(v) ==
  /\ \A l1, l2 \in Levels : l1 < l2 =>
       \A f1 \in FilesOf(v[l1]), f2 \in FilesOf(v[l2]) : Newer(f1.entries, f2.entries)
  /\ \A level \in Levels \ {0} : \A f, g \in FilesOf(v[level]) : f # g => KeysBeside(f, {g})

\* What is not an input is newer than the inputs, or has none of their keys.
OthersAreNewer(v, c) ==
  /\ \A g \in FilesOf(v[c.level]) \ FilesOf(c.inputs0), h \in InputFiles(c) :
       Newer(g.entries, h.entries)
  /\ \A g \in FilesOf(v[c.level + 1]) \ FilesOf(c.inputs1) : KeysBeside(g, InputFiles(c))

FilesSplitKeys(F) == \A f, g \in F : f # g => KeysBeside(f, {g})

NewerInv ==
  /\ snapshots = {}
  /\ LevelsAreNewer(version)
  /\ compaction # NULL => OthersAreNewer(version, compaction.c) /\ FilesSplitKeys(Made(compaction))

\* Files on two sides of a user key share none, and so neither is older.
LEMMA NoSharedKey ==
  ASSUME NEW f \in File, NEW g \in File, KeysBeside(f, {g}) \/ KeysBeside(g, {f})
  PROVE  /\ Newer(f.entries, g.entries) /\ Newer(g.entries, f.entries)
         /\ KeysBeside(f, {g}) /\ KeysBeside(g, {f})
<1>1. f.largest.key < g.smallest.key \/ g.largest.key < f.smallest.key
  BY DEF KeysBeside
<1>2. \A x \in File : \A e \in x.entries : e.key \in Int
  BY FileBounds, EntriesAreKeys
<1>3. \A e \in f.entries, o \in g.entries : e.key < o.key \/ o.key < e.key
  BY <1>1, KeysApart
<1>4. \A e \in f.entries, o \in g.entries : e.key # o.key
  BY <1>2, <1>3
<1> QED BY <1>1, <1>4 DEF Newer, KeysBeside

\* The files of one level that a compaction leaves are newer than its inputs.
LEMMA OthersOfTheLevel ==
  ASSUME NEW v, Version(v), LevelsAreNewer(v), NEW level \in 0 .. kNumLevels - 2, NEW c,
         Inputs(v, level, c), NEW g \in FilesOf(v[level]) \ FilesOf(c.inputs0),
         NEW h \in FilesOf(c.inputs0)
  PROVE  KeysBeside(g, {h})
<1>1. level \in Levels /\ FilesOf(c.inputs0) \subseteq FilesOf(v[level])
  BY LevelsAssumption DEF Inputs, Chosen, Levels
<1>2. g \in File /\ h \in File /\ h \in FilesOf(v[level])
  BY <1>1, VersionFilesAreFiles
<1>3. CASE level # 0
  BY <1>1, <1>2, <1>3 DEF LevelsAreNewer
<1>4. CASE level = 0
  <2>1. PICK p \in Pairs : /\ FilesOf(c.inputs0) = Hits(FilesOf(v[0]), p[1], p[2])
                           /\ Within(FilesOf(c.inputs0), p[1], p[2])
    BY <1>4 DEF Inputs, Chosen
  <2>2. ~(p[1] <= g.largest.key /\ g.smallest.key <= p[2])
    BY <1>4, <2>1 DEF Hits
  <2>3. p[1] <= h.smallest.key /\ h.largest.key <= p[2]
    BY <2>1 DEF Within
  <2>4. /\ p[1] \in Int /\ p[2] \in Int /\ g.largest.key \in Int /\ g.smallest.key \in Int
        /\ h.largest.key \in Int /\ h.smallest.key \in Int
    BY <1>2, FileBounds, LSMAssumption DEF Pairs
  <2>5. g.largest.key < h.smallest.key \/ h.largest.key < g.smallest.key
    BY <2>2, <2>3, <2>4
  <2> QED BY <2>5 DEF KeysBeside
<1> QED BY <1>3, <1>4

\* When a compaction starts, the other files of its level are newer than its
\* inputs, and those of the next level share no key with them.
LEMMA OthersAtTheStart ==
  ASSUME NEW v, Version(v), LevelsAreNewer(v), NEW level \in 0 .. kNumLevels - 2, NEW c,
         Inputs(v, level, c)
  PROVE  OthersAreNewer(v, c)
<1>1. level \in Levels /\ level + 1 \in Levels \ {0} /\ level < level + 1
  BY LevelsAssumption DEF Levels
<1>2. c.level = level /\ FilesOf(c.inputs0) \subseteq FilesOf(v[level])
      /\ FilesOf(c.inputs1) \subseteq FilesOf(v[level + 1])
  BY DEF Inputs, Chosen, Hits
<1>3. ASSUME NEW g \in FilesOf(v[level]) \ FilesOf(c.inputs0), NEW h \in InputFiles(c)
      PROVE  Newer(g.entries, h.entries)
  <2>1. CASE h \in FilesOf(c.inputs0)
    <3>1. KeysBeside(g, {h})
      BY <2>1, OthersOfTheLevel
    <3>2. g \in File /\ h \in File
      BY <1>1, <1>2, <2>1, VersionFilesAreFiles
    <3> QED BY <3>1, <3>2, NoSharedKey
  <2>2. CASE h \in FilesOf(c.inputs1)
    <3>1. h \in FilesOf(v[level + 1])
      BY <1>2, <2>2
    <3> QED BY <1>1, <3>1 DEF LevelsAreNewer
  <2> QED BY <2>1, <2>2 DEF InputFiles
<1>4. ASSUME NEW g \in FilesOf(v[level + 1]) \ FilesOf(c.inputs1)
      PROVE  KeysBeside(g, InputFiles(c))
  <2>1. \A h \in FilesOf(c.inputs1) : KeysBeside(g, {h})
    BY <1>1, <1>2 DEF LevelsAreNewer
  <2> QED BY <2>1, OthersAreBeside
<1> QED BY <1>2, <1>3, <1>4 DEF OthersAreNewer

\* What is beside all inputs shares no key with what is made of them.
LEMMA BesideByKeys ==
  ASSUME NEW F \in SUBSET File, NEW g \in File, KeysBeside(g, F), NEW f \in File,
         f.entries \subseteq UNION {h.entries : h \in F}
  PROVE  KeysBeside(g, {f})
<1>1. PICK h1 \in F : f.smallest \in h1.entries
  BY DEF File
<1>2. PICK h2 \in F : f.largest \in h2.entries
  BY DEF File
<1>3. h1 \in File /\ h2 \in File
  OBVIOUS
<1>4. /\ h1.smallest.key <= f.smallest.key /\ f.largest.key <= h2.largest.key
      /\ h1.smallest.key \in Int /\ f.smallest.key \in Int /\ f.largest.key \in Int
      /\ h2.largest.key \in Int /\ g.smallest.key \in Int /\ g.largest.key \in Int
  <2>1. LessEq(h1.smallest, f.smallest) /\ LessEq(f.largest, h2.largest)
    BY <1>1, <1>2, <1>3, FileBounds
  <2>2. /\ h1.smallest \in IKey /\ f.smallest \in IKey /\ f.largest \in IKey /\ h2.largest \in IKey
        /\ g.smallest \in IKey /\ g.largest \in IKey
    BY <1>3, FileBounds, EntriesAreKeys
  <2>3. h1.smallest.key <= f.smallest.key /\ f.largest.key <= h2.largest.key
    BY <2>1, <2>2, KeyOrder
  <2> QED BY <2>2, <2>3 DEF IKey
<1>5. g.largest.key < h1.smallest.key \/ h2.largest.key < g.smallest.key
  BY DEF KeysBeside
<1>6. g.largest.key < f.smallest.key \/ f.largest.key < g.smallest.key
  BY <1>4, <1>5
<1> QED BY <1>6 DEF KeysBeside

\* The inputs of a compaction give way to files of their entries.
LEMMA ReplacedIsNewer ==
  ASSUME NEW v, Version(v), LevelsAreNewer(v), NEW c, InputsStand(v, c), OthersAreNewer(v, c),
         NEW made \in SUBSET File, \A f \in made : f.entries \subseteq InputEntries(c),
         FilesSplitKeys(made),
         NEW w, LevelsReplaced(v, c, made, w)
  PROVE  LevelsAreNewer(w)
<1>1. c.level \in Levels /\ c.level + 1 \in Levels /\ c.level \in 0 .. kNumLevels - 2
  BY MergeLevels
<1>2. InputFiles(c) \subseteq FilesOf(v[c.level]) \cup FilesOf(v[c.level + 1])
  BY DEF InputsStand, InputFiles
<1>3. \A level \in Levels : FilesOf(v[level]) \subseteq File /\ FilesOf(v[level]) \subseteq AllFiles(v)
  BY VersionFilesAreFiles
<1>4. InputFiles(c) \in SUBSET File
  BY <1>1, <1>2, <1>3
<1>5. ASSUME NEW f \in made, NEW o \in f.entries
      PROVE  \E h \in InputFiles(c) : o \in h.entries
  BY DEF InputEntries
<1>6. ASSUME NEW level \in Levels, NEW f \in FilesOf(w[level])
      PROVE  /\ f \in FilesOf(v[level]) \/ (level = c.level + 1 /\ f \in made)
             /\ level = c.level => f \notin FilesOf(c.inputs0)
             /\ level = c.level + 1 => f \in made \/ f \notin FilesOf(c.inputs1)
  <2>1. f \in Replaced(v, c, made, level)
    BY <1>6 DEF LevelsReplaced
  <2>2. level = c.level => level # c.level + 1
    BY <1>1
  <2> QED BY ONLY <2>1, <2>2 DEF Replaced
<1>7. ASSUME NEW l1 \in Levels, NEW l2 \in Levels, l1 < l2,
             NEW f1 \in FilesOf(w[l1]), NEW f2 \in FilesOf(w[l2])
      PROVE  Newer(f1.entries, f2.entries)
  <2>1. CASE f1 \in FilesOf(v[l1]) /\ f2 \in FilesOf(v[l2])
    BY <1>7, <2>1 DEF LevelsAreNewer
  <2>2. CASE l2 = c.level + 1 /\ f2 \in made
    <3>1. l1 # c.level + 1 /\ f1 \in FilesOf(v[l1]) /\ (l1 = c.level \/ l1 < c.level)
      <4>1. l1 \in Int /\ l2 \in Int /\ c.level \in Int
        BY <1>1 DEF Levels
      <4>2. l1 # c.level + 1 /\ (l1 = c.level \/ l1 < c.level)
        BY <1>7, <2>2, <4>1
      <4> QED BY <1>6, <1>7, <4>2
    <3>2. ASSUME NEW h \in InputFiles(c) PROVE Newer(f1.entries, h.entries)
      <4>1. CASE l1 = c.level
        BY <1>6, <1>7, <3>1, <4>1 DEF OthersAreNewer
      <4>2. CASE l1 < c.level
        <5>1. l1 < c.level + 1
          BY <1>1, <4>2 DEF Levels
        <5> QED BY <1>1, <1>2, <3>1, <4>2, <5>1 DEF LevelsAreNewer
      <4> QED BY <3>1, <4>1, <4>2
    <3> QED BY <1>5, <2>2, <3>2 DEF Newer
  <2>3. CASE l1 = c.level + 1 /\ f1 \in made
    <3>1. l2 # c.level + 1 /\ f2 \in FilesOf(v[l2]) /\ c.level < l2 /\ c.level + 1 < l2
      <4>1. l1 \in Int /\ l2 \in Int /\ c.level \in Int
        BY <1>1 DEF Levels
      <4>2. l2 # c.level + 1 /\ c.level < l2 /\ c.level + 1 < l2
        BY <1>7, <2>3, <4>1
      <4> QED BY <1>6, <1>7, <4>2
    <3>2. ASSUME NEW h \in InputFiles(c) PROVE Newer(h.entries, f2.entries)
      BY <1>1, <1>2, <3>1 DEF LevelsAreNewer
    <3> QED BY <1>5, <2>3, <3>2 DEF Newer
  <2> QED BY <1>6, <1>7, <2>1, <2>2, <2>3
<1>8. ASSUME NEW level \in Levels \ {0}, NEW f \in FilesOf(w[level]), NEW g \in FilesOf(w[level]), f # g
      PROVE  KeysBeside(f, {g})
  <2>1. CASE f \in FilesOf(v[level]) /\ g \in FilesOf(v[level])
    BY <1>8, <2>1 DEF LevelsAreNewer
  <2>2. CASE f \in made /\ g \in made
    BY <1>8, <2>2 DEF FilesSplitKeys
  <2>3. ASSUME level = c.level + 1, NEW x \in made, NEW y \in FilesOf(v[level]), y \notin FilesOf(c.inputs1)
        PROVE  KeysBeside(x, {y}) /\ KeysBeside(y, {x})
    <3>1. KeysBeside(y, InputFiles(c))
      BY <2>3 DEF OthersAreNewer
    <3>2. x.entries \subseteq UNION {h.entries : h \in InputFiles(c)}
      BY DEF InputEntries
    <3>3. x \in File /\ y \in File
      BY <1>3
    <3>4. KeysBeside(y, {x})
      BY <1>4, <3>1, <3>2, <3>3, BesideByKeys
    <3> QED BY <3>3, <3>4, NoSharedKey
  <2> QED BY <1>6, <1>8, <2>1, <2>2, <2>3
<1> QED BY <1>7, <1>8 DEF LevelsAreNewer

\* The flushed table is newer than all below it, and does not touch the inputs of
\* a running compaction.
LEMMA FlushIsNewer ==
  ASSUME NEW v, Version(v), LevelsAreNewer(v), NEW n \in Nat,
         NEW S \in SUBSET Entry, IsFiniteSet(S), S # {}, Later(S, Contents(v)),
         NEW a, a = FlushedFile(v, n, S),
         NEW w, \A level \in Levels : FilesOf(w[level])
                  = FilesOf(v[level]) \cup (IF level = a[1] THEN {a[2]} ELSE {})
  PROVE  /\ LevelsAreNewer(w)
         /\ \A c : InputsStand(v, c) /\ OthersAreNewer(v, c) => OthersAreNewer(w, c)
<1> DEFINE g == a[2]
<1>1. /\ g \in File /\ a[1] \in Levels /\ g.entries = S
      /\ a[1] # 0 => \A l \in 0 .. a[1] : \A f \in FilesOf(v[l]) :
           f.largest.key < g.smallest.key \/ g.largest.key < f.smallest.key
  BY FlushedFileIsApart
<1> HIDE DEF g
<1>2. \A level \in Levels : FilesOf(v[level]) \subseteq File /\ FilesOf(v[level]) \subseteq AllFiles(v)
  BY VersionFilesAreFiles
<1>3. \A level \in Levels : \A f \in FilesOf(w[level]) :
        f \in FilesOf(v[level]) \/ (level = a[1] /\ f = g)
  BY DEF g
<1>4. ASSUME NEW level \in Levels, NEW f \in FilesOf(v[level]) PROVE Newer(S, f.entries)
  <2>1. f.entries \subseteq Contents(v)
    BY <1>2 DEF Contents
  <2> QED BY <2>1 DEF Newer, Later
<1>5. ASSUME NEW level \in Levels, level <= a[1], a[1] # 0, NEW f \in FilesOf(v[level])
      PROVE  KeysBeside(f, {g}) /\ KeysBeside(g, {f}) /\ Newer(f.entries, g.entries)
  <2>1. f \in File /\ level \in 0 .. a[1]
    BY <1>1, <1>2, <1>5 DEF Levels
  <2>2. f.largest.key < g.smallest.key \/ g.largest.key < f.smallest.key
    BY <1>1, <1>5, <2>1
  <2>3. KeysBeside(f, {g})
    BY <2>2 DEF KeysBeside
  <2> QED BY <1>1, <2>1, <2>3, NoSharedKey
<1>6. ASSUME NEW l1 \in Levels, NEW l2 \in Levels, l1 < l2,
             NEW f1 \in FilesOf(w[l1]), NEW f2 \in FilesOf(w[l2])
      PROVE  Newer(f1.entries, f2.entries)
  <2>1. CASE f1 \in FilesOf(v[l1]) /\ f2 \in FilesOf(v[l2])
    BY <1>6, <2>1 DEF LevelsAreNewer
  <2>2. CASE l2 = a[1] /\ f2 = g /\ f1 \in FilesOf(v[l1])
    <3>1. l1 <= a[1] /\ a[1] # 0
      BY <1>6, <2>2 DEF Levels
    <3> QED BY <1>5, <2>2, <3>1
  <2>3. CASE l1 = a[1] /\ f1 = g /\ f2 \in FilesOf(v[l2])
    BY <1>1, <1>4, <2>3
  <2>4. l1 # l2
    BY <1>6 DEF Levels
  <2> QED BY <1>3, <1>6, <2>1, <2>2, <2>3, <2>4
<1>7. ASSUME NEW level \in Levels \ {0}, NEW f \in FilesOf(w[level]), NEW h \in FilesOf(w[level]), f # h
      PROVE  KeysBeside(f, {h})
  <2>1. CASE f \in FilesOf(v[level]) /\ h \in FilesOf(v[level])
    BY <1>7, <2>1 DEF LevelsAreNewer
  <2>2. ASSUME level = a[1] PROVE level <= a[1] /\ a[1] # 0
    BY <2>2 DEF Levels
  <2> QED BY <1>3, <1>5, <1>7, <2>1, <2>2
<1>8. ASSUME NEW c, InputsStand(v, c), OthersAreNewer(v, c) PROVE OthersAreNewer(w, c)
  <2>1. c.level \in Levels /\ c.level + 1 \in Levels
    BY <1>8, MergeLevels
  <2>2. ASSUME NEW f \in FilesOf(w[c.level]) \ FilesOf(c.inputs0), NEW h \in InputFiles(c)
        PROVE  Newer(f.entries, h.entries)
    <3>1. CASE f \in FilesOf(v[c.level])
      BY <1>8, <2>2, <3>1 DEF OthersAreNewer
    <3>2. CASE f = g
      <4>1. h \in FilesOf(v[c.level]) \/ h \in FilesOf(v[c.level + 1])
        BY <1>8 DEF InputsStand, InputFiles
      <4> QED BY <1>1, <1>4, <2>1, <3>2, <4>1
    <3> QED BY <1>3, <2>1, <3>1, <3>2
  <2>3. ASSUME NEW f \in FilesOf(w[c.level + 1]) \ FilesOf(c.inputs1)
        PROVE  KeysBeside(f, InputFiles(c))
    <3>1. CASE f \in FilesOf(v[c.level + 1])
      BY <1>8, <2>3, <3>1 DEF OthersAreNewer
    <3>2. CASE a[1] = c.level + 1 /\ f = g
      BY <1>8, <3>2, FlushedFileIsBeside DEF g
    <3> QED BY <1>3, <2>1, <3>1, <3>2
  <2> QED BY <2>2, <2>3 DEF OthersAreNewer
<1> QED BY <1>6, <1>7, <1>8 DEF LevelsAreNewer

\* When nothing holds a snapshot, outputs that follow each other share no key.
LEMMA OutputsSplitKeys ==
  ASSUME NEW c, NEW P \in SUBSET Entry, \A e, o \in P : e.key = o.key => e = o,
         NEW out, InPieces(out, P), NEW F, NEW n \in Nat,
         WrittenFiles(F, n, out)
  PROVE  FilesSplitKeys(F)
<1> DEFINE G(i) == FileMetaData(n + i - 1, out[i])
<1>1. F = {G(i) : i \in DOMAIN out} /\ \A i \in DOMAIN out : G(i) \in File /\ G(i).entries = out[i]
  BY DEF WrittenFiles
<1> HIDE DEF G
<1>2. DOMAIN out = 1 .. Len(out) /\ Len(out) \in Nat
  BY DEF InPieces
<1>3. ASSUME NEW i \in DOMAIN out, NEW j \in DOMAIN out, i < j
      PROVE  G(i).largest.key < G(j).smallest.key
  <2>1. G(i).largest \in out[i] /\ G(j).smallest \in out[j]
    BY <1>1 DEF File
  <2>2. out[i] \subseteq P /\ out[j] \subseteq P /\ \A e \in out[i], o \in out[j] : Less(e, o)
    BY <1>3 DEF InPieces
  <2>3. /\ Less(G(i).largest, G(j).smallest) /\ G(i).largest \in P /\ G(j).smallest \in P
        /\ G(i).largest \in IKey /\ G(j).smallest \in IKey
    BY <2>1, <2>2, EntriesAreKeys
  <2>4. G(i).largest.key <= G(j).smallest.key /\ G(i).largest # G(j).smallest
    BY <2>3, KeyOrder
  <2>5. G(i).largest.key # G(j).smallest.key
    BY <2>3, <2>4
  <2>6. G(i).largest.key \in Int /\ G(j).smallest.key \in Int
    BY <2>3 DEF IKey
  <2> QED BY <2>4, <2>5, <2>6
<1>4. ASSUME NEW i \in DOMAIN out, NEW j \in DOMAIN out, G(i) # G(j) PROVE KeysBeside(G(i), {G(j)})
  <2>1. i < j \/ j < i
    BY <1>2, <1>4
  <2> QED BY <1>3, <2>1 DEF KeysBeside
<1> QED BY <1>1, <1>4 DEF FilesSplitKeys

-----------------------------------------------------------------------------
(* The steps                                                               *)

\* An empty database has no older entry above a newer one.
LEMMA NewerInvInit == Init => NewerInv
<1> SUFFICES ASSUME Init PROVE NewerInv
  OBVIOUS
<1>1. \A level \in Levels : FilesOf(version[level]) = {}
  BY DEF Init, FilesOf
<1>2. LevelsAreNewer(version)
  BY <1>1 DEF LevelsAreNewer
<1> QED BY <1>2 DEF NewerInv, Init

\* A flush: the immutable memtable's entries go to the version.
LEMMA FlushKeepsNewer ==
  ASSUME LevelsInv, EntriesInv, NewerInv, CompactMemTable
  PROVE  NewerInv'
<1>1. /\ imm # NULL /\ UNCHANGED <<snapshots, compaction>> /\ MemEntries(imm) = imm
      /\ imm \in SUBSET Entry /\ IsFiniteSet(imm)
  BY DEF CompactMemTable, FlushImm, MemEntries, LevelsInv, ClientsInv
<1>2. Version(version) /\ next_file \in Nat /\ Numbered(version, next_file)
  BY DEF LevelsInv, VersionInv
<1>3. compaction # NULL => InputsStand(version, compaction.c)
  BY DEF LevelsInv, CompactionInv, MergeStands
<1>4. /\ LevelsAreNewer(version)'
      /\ compaction # NULL => OthersAreNewer(version', compaction.c)
  <2>1. CASE imm = {}
    <3>1. version' = ApplyEdit(version, {}, {})
      BY <2>1 DEF CompactMemTable, FlushImm, LogAndApply
    <3>2. \A level \in Levels : FilesOf(version'[level]) = FilesOf(version[level])
      <4>1. next_file <= next_file
        BY <1>2
      <4> QED BY <1>2, <3>1, <4>1, EmptyEdit
    <3>3. LevelsAreNewer(version)'
      BY <3>2 DEF LevelsAreNewer, NewerInv
    <3>4. compaction # NULL => OthersAreNewer(version', compaction.c)
      <4>1. compaction # NULL => compaction.c.level \in Levels /\ compaction.c.level + 1 \in Levels
        BY <1>3, MergeLevels
      <4> QED BY <3>2, <4>1 DEF OthersAreNewer, NewerInv
    <3> QED BY <3>3, <3>4
  <2>2. CASE imm # {}
    <3> DEFINE a == FlushedFile(version, next_file, imm)
    <3>1. version' = ApplyEdit(version, {}, {a})
      BY <2>2 DEF CompactMemTable, FlushImm, LogAndApply, FlushedFile
    <3>2. \A level \in Levels : FilesOf(version'[level])
             = FilesOf(version[level]) \cup (IF level = a[1] THEN {a[2]} ELSE {})
      BY <1>1, <1>2, <2>2, <3>1, FlushedVersion
    <3>3. LevelsAreNewer(version) /\ Later(imm, Contents(version))
      BY <1>1 DEF NewerInv, EntriesInv, AgesInv
    <3>4. a = FlushedFile(version, next_file, imm)
      OBVIOUS
    <3> HIDE DEF a
    <3>5. /\ LevelsAreNewer(version')
          /\ \A c : InputsStand(version, c) /\ OthersAreNewer(version, c) => OthersAreNewer(version', c)
      BY ONLY <1>1, <1>2, <2>2, <3>2, <3>3, <3>4, FlushIsNewer
    <3> QED BY <1>3, <3>5 DEF NewerInv
  <2> QED BY <2>1, <2>2
<1> QED BY <1>1, <1>4 DEF NewerInv

\* A compaction starts with nothing older above its outputs, and no user key is
\* split between two of them.
LEMMA StartKeepsNewer ==
  ASSUME LevelsInv, EntriesInv, NewerInv, NEW level \in 0 .. kNumLevels - 2, NEW c,
         Inputs(version, level, c), StartCompaction(c, FALSE)
  PROVE  OthersAreNewer(version, c) /\ FilesSplitKeys(Made(compaction')) /\ compaction'.c = c
<1> DEFINE out == CompactionOutputs(version, c, SmallestSnapshot)
           P == Kept(version, c, SmallestSnapshot, MergeInput(c))
           m == [c |-> c, is_manual |-> FALSE, outputs |-> NewFiles(c, next_file, out)]
<1>1. compaction' = m
  BY DEF StartCompaction, NewFiles
<1>2. Version(version) /\ next_file \in Nat /\ Numbered(version, next_file) /\ LevelsAreNewer(version)
  BY DEF LevelsInv, VersionInv, NewerInv
<1>3. OthersAreNewer(version, c)
  BY <1>2, OthersAtTheStart
<1>4. c.inputs0 \in Seq(File) /\ c.inputs1 \in Seq(File) /\ c.grandparents \in Seq(File)
  BY DEF Inputs, Chosen
<1>5. InPieces(out, P) /\ P \subseteq InputEntries(c)
  <2> HIDE DEF out, P
  <2>1. /\ InPieces(CompactionOutputs(version, c, SmallestSnapshot),
                    Kept(version, c, SmallestSnapshot, MergeInput(c)))
        /\ Kept(version, c, SmallestSnapshot, MergeInput(c))
             \subseteq UNION {f.entries : f \in FilesOf(c.inputs0) \cup FilesOf(c.inputs1)}
    BY ONLY <1>4, OutputsInPieces
  <2> QED BY <2>1 DEF out, P, InputEntries, InputFiles
<1>6. InputEntries(c) \subseteq Contents(version) /\ InputEntries(c) \subseteq Entry
  <2>1. InputsStand(version, c)
    BY <1>2, InputsAreThere
  <2>2. c.level \in Levels /\ c.level + 1 \in Levels
    BY <2>1, MergeLevels
  <2>3. InputFiles(c) \subseteq AllFiles(version)
    BY <2>1, <2>2 DEF InputsStand, InputFiles, AllFiles
  <2>4. AllFiles(version) \subseteq File
    BY <1>2, VersionFilesAreFiles
  <2>5. \A f \in File : f.entries \subseteq Entry
    BY FileBounds
  <2> QED BY <2>3, <2>4, <2>5 DEF InputEntries, Contents
<1>7. SmallestSnapshot = Len(history) /\ Len(history) \in Nat
  BY DEF SmallestSnapshot, LastSequence, NewerInv, LevelsInv, ClientsInv
<1>8. \A e, o \in P : e.key = o.key => e = o
  <2>1. /\ MergeInput(c) \in Seq(Entry)
        /\ \A i, j \in DOMAIN MergeInput(c) : i < j => Less(MergeInput(c)[i], MergeInput(c)[j])
        /\ {MergeInput(c)[i] : i \in DOMAIN MergeInput(c)}
              = UNION {f.entries : f \in FilesOf(c.inputs0) \cup FilesOf(c.inputs1)}
    BY ONLY <1>4, InputInOrder
  <2> DEFINE input == MergeInput(c)
  <2>2. \A i \in DOMAIN input : input[i] \in Contents(version)
    BY <1>6, <2>1 DEF InputEntries, InputFiles
  <2>3. \A i \in DOMAIN input : input[i].seq <= SmallestSnapshot
    <3> HIDE DEF input
    <3> QED BY <1>7, <2>2 DEF EntriesInv, AgesInv
  <2>4. SmallestSnapshot \in Nat /\ input \in Seq(Entry)
        /\ (\A i, j \in DOMAIN input : i < j => Less(input[i], input[j]))
    BY <1>7, <2>1
  <2> HIDE DEF input
  <2>5. \A e, o \in Kept(version, c, SmallestSnapshot, input) : e.key = o.key => e = o
    BY ONLY <2>3, <2>4, OneOfAKey
  <2> QED BY <2>5 DEF input, P
<1> HIDE DEF out, P
<1>9. WrittenFiles(Made(m), next_file, out)
  <2>1. \A f \in AllFiles(version) : f.number \in Nat
    BY <1>2, VersionFilesAreFiles
  <2>2. m.c = c /\ m.outputs = NewFiles(c, next_file, out)
    OBVIOUS
  <2> HIDE DEF m
  <2>3. /\ next_file \in Nat /\ Numbered(version, next_file) /\ \A f \in AllFiles(version) : f.number \in Nat
        /\ P \subseteq InputEntries(c) /\ InPieces(out, P)
        /\ m.c = c /\ m.outputs = NewFiles(c, next_file, out)
    BY <1>2, <1>5, <2>1, <2>2
  <2> QED BY ONLY <2>3, OutputsAreGood
<1>10. FilesSplitKeys(Made(m))
  <2>1. P \in SUBSET Entry
    BY <1>5, <1>6
  <2> HIDE DEF m
  <2> QED BY <1>2, <1>5, <1>8, <1>9, <2>1, OutputsSplitKeys
<1> QED BY <1>1, <1>3, <1>10

\* InstallCompactionResults: what the outputs replace was as new as they are.
LEMMA InstallKeepsNewer ==
  ASSUME LevelsInv, NewerInv, InstallCompactionResults
  PROVE  NewerInv'
<1>1. /\ compaction # NULL /\ compaction' = NULL
      /\ version' = ApplyEdit(version, AddInputDeletions(compaction.c), compaction.outputs)
      /\ UNCHANGED snapshots
  BY DEF InstallCompactionResults, LogAndApply
<1>2. Version(version) /\ next_file \in Nat /\ Numbered(version, next_file)
      /\ MergeStands(version, next_file, compaction) /\ InputsStand(version, compaction.c)
      /\ OutputsStand(version, next_file, compaction)
  BY <1>1 DEF LevelsInv, VersionInv, CompactionInv, MergeStands
<1>3. LevelsReplaced(version, compaction.c, Made(compaction), version')
  BY <1>1, <1>2, InstalledVersion DEF LevelsReplaced
<1>4. Made(compaction) \in SUBSET File
      /\ \A f \in Made(compaction) : f.entries \subseteq InputEntries(compaction.c)
  BY <1>2 DEF OutputsStand, Made
<1>5. LevelsAreNewer(version) /\ OthersAreNewer(version, compaction.c) /\ FilesSplitKeys(Made(compaction))
  BY <1>1 DEF NewerInv
<1>6. LevelsAreNewer(version')
  BY <1>2, <1>3, <1>4, <1>5, ReplacedIsNewer
<1> QED BY <1>1, <1>6 DEF NewerInv

\* BackgroundCompaction moves a file or starts a compaction.
LEMMA AutomaticKeepsNewer ==
  ASSUME LevelsInv, EntriesInv, NewerInv, BackgroundAutomatic
  PROVE  NewerInv'
<1> DEFINE c == PickCompaction(version, compact_pointer, file_to_compact)
<1>1. /\ UNCHANGED snapshots
      /\ compaction = NULL /\ NeedsCompaction(version, file_to_compact)
  BY DEF BackgroundAutomatic
<1>2. /\ version \in [Levels -> Seq(File)] /\ Charged(version, file_to_compact)
      /\ Version(version) /\ next_file \in Nat /\ Numbered(version, next_file)
  BY DEF LevelsInv, VersionInv, Version
<1>3. PICK level \in 0 .. kNumLevels - 2 : Inputs(version, level, c)
  BY <1>1, <1>2, PickIsGood
<1> HIDE DEF c
<1>4. CASE IsTrivialMove(c)
  <2>1. /\ version' = ApplyEdit(version, {<<c.level, c.inputs0[1]>>}, {<<c.level + 1, c.inputs0[1]>>})
        /\ compaction' = NULL
    BY <1>1, <1>4 DEF BackgroundAutomatic, LogAndApply, c
  <2> DEFINE f == c.inputs0[1]
  <2>2. LevelsReplaced(version, c, {f}, version') /\ FilesOf(c.inputs0) = {f}
    BY <1>2, <1>3, <1>4, <2>1, MovedVersion
  <2> HIDE DEF f
  <2>3. InputsStand(version, c) /\ OthersAreNewer(version, c) /\ LevelsAreNewer(version)
    BY <1>2, <1>3, InputsAreThere, OthersAtTheStart DEF NewerInv
  <2>4. {f} \in SUBSET File
    <3>1. c.inputs0 \in Seq(File)
      BY <2>3 DEF InputsStand
    <3> QED BY <2>2, <3>1, FilesAreFinite
  <2>5. (\A g \in {f} : g.entries \subseteq InputEntries(c)) /\ FilesSplitKeys({f})
    BY <2>2 DEF InputEntries, InputFiles, FilesSplitKeys
  <2>6. LevelsAreNewer(version')
    BY <1>2, <2>2, <2>3, <2>4, <2>5, ReplacedIsNewer
  <2> QED BY <1>1, <2>1, <2>6 DEF NewerInv
<1>5. CASE ~IsTrivialMove(c)
  <2>1. StartCompaction(c, FALSE) /\ UNCHANGED version
    BY <1>5 DEF BackgroundAutomatic, c
  <2>2. OthersAreNewer(version, c) /\ FilesSplitKeys(Made(compaction')) /\ compaction'.c = c
    BY <1>3, <2>1, StartKeepsNewer
  <2> QED BY <1>1, <2>1, <2>2 DEF NewerInv
<1> QED BY <1>4, <1>5

\* No step of the database brings an older entry above a newer one.
LEMMA NewerStep ==
  ASSUME MaxRangeCalls = 0, MaxSnapshots = 0, LevelsInv, EntriesInv, NewerInv, [Next]_vars
  PROVE  NewerInv'
<1>1. CASE Write
  BY <1>1 DEF Write, NewerInv
<1>2. CASE MakeRoomForWrite
  BY <1>2 DEF MakeRoomForWrite, SwitchMemTable, NewerInv
<1>3. CASE GetSnapshot
  BY <1>3, FS_EmptySet DEF GetSnapshot, NewerInv
<1>4. CASE ReleaseSnapshot
  BY <1>4 DEF ReleaseSnapshot, NewerInv
<1>5. ASSUME NEW k \in Keys, NEW s \in ReadPoints, Get(k, s) PROVE NewerInv'
  BY <1>5 DEF Get, NewerInv
<1>6. ASSUME NEW f \in VersionFiles(version), NEW e \in f.entries, RecordReadSample(e)
      PROVE  NewerInv'
  BY <1>6 DEF RecordReadSample, NewerInv
<1>7. CASE CompactRangeCall
  BY <1>7 DEF CompactRangeCall, LevelsInv, ClientsInv
<1>8. CASE ForceMemTable
  BY <1>8 DEF ForceMemTable, LevelsInv, ClientsInv
<1>9. CASE TEST_CompactRange
  BY <1>9 DEF TEST_CompactRange, LevelsInv, ClientsInv
<1>10. CASE CompactMemTable
  BY <1>10, FlushKeepsNewer
<1>11. CASE BackgroundManual
  BY <1>11 DEF BackgroundManual, LevelsInv, ClientsInv
<1>12. CASE BackgroundAutomatic
  BY <1>12, AutomaticKeepsNewer
<1>13. CASE InstallCompactionResults
  BY <1>13, InstallKeepsNewer
<1>14. CASE UNCHANGED vars
  BY <1>14 DEF vars, NewerInv
<1> QED BY <1>1, <1>2, <1>3, <1>4, <1>5, <1>6, <1>7, <1>8, <1>9, <1>10, <1>11, <1>12, <1>13, <1>14
        DEF Next, BackgroundThread

\* "Entries never hop across levels", on which Version::Get relies when it
\* stops at the first level that answers: of one user key, everything in a
\* smaller level is newer, as long as no snapshot is held (a key that a
\* snapshot keeps twice may be split between two files, see the run
\* lsm_splitkey) and no one calls CompactRange.
THEOREM SmallerLevelsStayNewer ==
  ASSUME MaxRangeCalls = 0, MaxSnapshots = 0 PROVE Spec => []SmallerLevelIsNewer
<1>1. Init => LevelsInv /\ EntriesInv /\ NewerInv
  BY LevelsInvInit, EntriesInvInit, NewerInvInit
<1>2. LevelsInv /\ EntriesInv /\ NewerInv /\ [Next]_vars
        => LevelsInv' /\ EntriesInv' /\ NewerInv'
  BY LevelsStep, EntriesStep, NewerStep
<1>3. NewerInv => SmallerLevelIsNewer
  BY DEF NewerInv, LevelsAreNewer, Newer, SmallerLevelIsNewer
<1> QED BY <1>1, <1>2, <1>3, PTL DEF Spec

-----------------------------------------------------------------------------
(* What a merge may forget                                                 *)

\* e is the newest entry of its key in S.
Newest(S, e) == e \in S /\ \A o \in S : o.key = e.key => o.seq <= e.seq

Without(T, k) == \A o \in T : o.key # k

\* A sequence number is that of one entry.
Unique(S) == \A e, o \in S : e.seq = o.seq => e = o

\* The newest entry of a key is kept; but for a deletion with no level below,
\* of whose key nothing is kept.
LEMMA NewestIsKept ==
  ASSUME NEW c, NEW v, NEW snapshot \in Nat, snapshot < kMaxSequenceNumber,
         NEW input \in Seq(Entry),
         \A i, j \in DOMAIN input : i < j => Less(input[i], input[j]),
         \A i \in DOMAIN input : input[i].seq <= snapshot,
         NEW S, S = {input[i] : i \in DOMAIN input}, Unique(S),
         NEW e, Newest(S, e), e \notin Kept(v, c, snapshot, input)
  PROVE  /\ e.type = kTypeDeletion /\ IsBaseLevelForKey(v, c, e.key)
         /\ Without(Kept(v, c, snapshot, input), e.key)
<1>1. PICK j \in DOMAIN input : e = input[j]
  BY DEF Newest
<1>2. Drop(v, c, snapshot, LastSequenceForKey(input, j), input[j])
  BY <1>1 DEF Kept
<1>3. ASSUME NEW i \in DOMAIN input, i < j PROVE input[i].key # input[j].key
  <2> SUFFICES ASSUME input[i].key = input[j].key PROVE FALSE
    OBVIOUS
  <2> DEFINE a == input[i]
             b == input[j]
  <2>1. a \in Entry /\ b \in Entry /\ a \in S /\ b \in S /\ Less(a, b) /\ a.key = b.key /\ b = e
    BY <1>1, <1>3
  <2> HIDE DEF a, b
  <2>2. a.seq <= b.seq /\ (a.seq = b.seq => a = b)
    BY <2>1 DEF Newest, Unique
  <2>3. a \in IKey /\ b \in IKey
    BY <2>1, EntriesAreKeys
  <2>4. a # b
    BY <2>1, <2>3, KeyOrder
  <2>5. a.key \in Int /\ b.key \in Int /\ a.seq \in Int /\ b.seq \in Int
    BY <2>3 DEF IKey
  <2> QED BY <2>1, <2>2, <2>4, <2>5 DEF Less
<1>4. LastSequenceForKey(input, j) = kMaxSequenceNumber
  <2>1. DOMAIN input = 1 .. Len(input) /\ Len(input) \in Nat
    OBVIOUS
  <2>2. j > 1 => j - 1 \in DOMAIN input /\ j - 1 < j
    BY <2>1
  <2> QED BY <1>3, <2>2 DEF LastSequenceForKey
<1>5. ~(kMaxSequenceNumber <= snapshot)
  <2>1. kMaxSequenceNumber \in Nat
    BY SMT DEF kMaxSequenceNumber
  <2> QED BY <2>1
<1>6. e.type = kTypeDeletion /\ IsBaseLevelForKey(v, c, e.key)
  BY <1>1, <1>2, <1>4, <1>5 DEF Drop
<1>7. ASSUME NEW i \in DOMAIN input, input[i].key = e.key,
             ~Drop(v, c, snapshot, LastSequenceForKey(input, i), input[i])
      PROVE  FALSE
  <2>1. i \in Int /\ j \in Int
    OBVIOUS
  <2>2. CASE i < j
    BY <1>1, <1>3, <1>7, <2>2
  <2>3. CASE i = j
    BY <1>2, <1>7, <2>3
  <2>4. CASE j < i
    BY <1>1, <1>7, <2>4, OlderIsDropped
  <2> QED BY <2>1, <2>2, <2>3, <2>4
<1>8. Without(Kept(v, c, snapshot, input), e.key)
  BY <1>7 DEF Kept, Without
<1> QED BY <1>6, <1>8

\* IsBaseLevelForKey: where it holds, no level below the outputs has the key.
LEMMA NothingBelow ==
  ASSUME NEW v, Version(v), NEW c, c.level \in 0 .. kNumLevels - 2,
         NEW k \in Keys, IsBaseLevelForKey(v, c, k),
         NEW level \in Levels, level > c.level + 1, NEW f \in FilesOf(v[level])
  PROVE  Without(f.entries, k)
<1> SUFFICES ASSUME NEW e \in f.entries, e.key = k PROVE FALSE
  BY DEF Without
<1>1. level \in c.level + 2 .. kNumLevels - 1 /\ level # 0 /\ k \in Int
  BY LevelsAssumption, LSMAssumption DEF Levels
<1>2. v[level] \in Seq(File) /\ InOrder(v[level])
  BY <1>1 DEF Version
<1>3. PICK i \in DOMAIN v[level] : f = v[level][i]
  BY DEF FilesOf
<1> DEFINE files == v[level]
           reach == {n \in DOMAIN files : k <= files[n].largest.key}
           first == CHOOSE j \in reach : \A o \in reach : j <= o
<1>4. \A n \in DOMAIN files : files[n] \in File
  BY <1>2
<1>5. \A x \in File : \A o \in x.entries :
        /\ x.smallest.key <= o.key /\ o.key <= x.largest.key
        /\ x.smallest.key \in Int /\ x.largest.key \in Int /\ x.smallest.key <= x.largest.key
  <2> SUFFICES ASSUME NEW x \in File, NEW o \in x.entries
               PROVE  /\ x.smallest.key <= o.key /\ o.key <= x.largest.key
                      /\ x.smallest.key \in Int /\ x.largest.key \in Int
                      /\ x.smallest.key <= x.largest.key
    OBVIOUS
  <2>1. /\ x.smallest \in IKey /\ x.largest \in IKey /\ o \in IKey
        /\ LessEq(x.smallest, o) /\ LessEq(o, x.largest)
    BY FileBounds, EntriesAreKeys
  <2>2. x.smallest.key <= o.key /\ o.key <= x.largest.key
    BY <2>1, KeyOrder
  <2>3. x.smallest.key \in Int /\ x.largest.key \in Int /\ o.key \in Int
    BY <2>1 DEF IKey
  <2> QED BY <2>2, <2>3
<1>6. i \in reach
  BY <1>3, <1>4, <1>5
<1>7. first \in reach /\ first <= i
  <2>1. reach \in SUBSET (1 .. Len(files)) /\ reach # {} /\ 1 \in Int /\ Len(files) \in Int
    BY <1>2, <1>6
  <2> HIDE DEF reach
  <2>2. \E j \in reach : \A o \in reach : j <= o
    BY ONLY <2>1, LeastIndex
  <2> QED BY <1>6, <2>2
<1>8. k < files[first].smallest.key
  <2>1. reach # {} => k < files[first].smallest.key
    BY <1>1 DEF IsBaseLevelForKey
  <2> QED BY <1>6, <2>1
<1> HIDE DEF first
<1>9. CASE first = i
  BY <1>1, <1>3, <1>4, <1>5, <1>8, <1>9
<1>10. CASE first # i
  <2> DEFINE g == files[first]
  <2>1. first < i /\ first \in DOMAIN files /\ g \in File
    BY <1>2, <1>4, <1>7, <1>10
  <2>2. Less(g.largest, f.smallest)
    BY <1>2, <1>3, <2>1 DEF InOrder
  <2>3. f \in File
    BY <1>3, <1>4
  <2>4. g.largest \in IKey /\ f.smallest \in IKey
    BY <2>1, <2>3, FileBounds, EntriesAreKeys
  <2>5. g.largest.key <= f.smallest.key
    BY <2>2, <2>4, KeyOrder
  <2>6. f.smallest.key <= k /\ g.smallest.key \in Int /\ g.largest.key \in Int /\ f.smallest.key \in Int
    BY <1>5, <2>1, <2>3, FileBounds
  <2>7. g.smallest.key <= g.largest.key
    <3>1. g.smallest \in g.entries
      BY <2>1 DEF File
    <3> QED BY <1>5, <2>1, <3>1
  <2>8. k < g.smallest.key
    BY <1>8
  <2> HIDE DEF g
  <2> QED BY <1>1, <2>5, <2>6, <2>7, <2>8
<1> QED BY <1>9, <1>10

\* Of the entries S a database with the entries T still has the newest of each
\* key, or that is a deletion and T has nothing of the key.
Retains(S, T) ==
  \A e \in S : Newest(S, e) => e \in T \/ (e.type = kTypeDeletion /\ Without(T, e.key))

\* The outputs O may stand for the inputs I among the entries C of the tables:
\* of a newest entry that is missing, C has nothing older.
Forgets(C, I, O) ==
  \A e \in I : Newest(I, e) /\ e \notin O =>
    /\ e.type = kTypeDeletion /\ Without(O, e.key)
    /\ \A o \in C \ I : o.key = e.key => o.seq > e.seq

\* A write adds an entry newer than all.
LEMMA WriteRetains ==
  ASSUME NEW S, NEW T \in SUBSET S, Retains(S, T), NEW e, e.seq \in Int,
         \A o \in S : o.seq \in Int /\ o.seq < e.seq
  PROVE  Retains(S \cup {e}, T \cup {e})
<1> SUFFICES ASSUME NEW x \in S \cup {e}, Newest(S \cup {e}, x), x # e
             PROVE  x \in T \/ (x.type = kTypeDeletion /\ Without(T \cup {e}, x.key))
  BY DEF Retains
<1>1. x \in S /\ Newest(S, x)
  BY DEF Newest
<1>2. e.key # x.key
  BY <1>1 DEF Newest
<1>3. x \in T \/ (x.type = kTypeDeletion /\ Without(T, x.key))
  BY <1>1 DEF Retains
<1> QED BY <1>2, <1>3 DEF Without

\* A merge takes the place of its inputs I, under the entries M of the memtables.
LEMMA MergeRetains ==
  ASSUME NEW S, \A e \in S : e.seq \in Int, NEW M, NEW C, M \cup C \subseteq S, Retains(S, M \cup C),
         Later(M, C), NEW I \in SUBSET C, NEW O \in SUBSET I, Forgets(C, I, O)
  PROVE  Retains(S, M \cup ((C \ I) \cup O))
<1> DEFINE T == M \cup ((C \ I) \cup O)
<1> SUFFICES ASSUME NEW e \in S, Newest(S, e), e \notin T
             PROVE  e.type = kTypeDeletion /\ Without(T, e.key)
  BY DEF Retains
<1>1. T \subseteq M \cup C
  OBVIOUS
<1>2. CASE e \notin M \cup C
  <2>1. e.type = kTypeDeletion /\ Without(M \cup C, e.key)
    BY <1>2 DEF Retains
  <2> QED BY <1>1, <2>1 DEF Without
<1>3. CASE e \in M \cup C
  <2>1. e \in I /\ e \notin O
    BY <1>3
  <2>2. Newest(I, e)
    BY <2>1 DEF Newest
  <2>3. /\ e.type = kTypeDeletion /\ Without(O, e.key)
        /\ \A o \in C \ I : o.key = e.key => o.seq > e.seq
    BY <2>1, <2>2 DEF Forgets
  <2>4. ASSUME NEW o \in M \cup (C \ I), o.key = e.key PROVE FALSE
    <3>1. o.seq > e.seq
      BY <2>1, <2>3, <2>4 DEF Later
    <3>2. o \in S /\ o.seq <= e.seq
      BY <2>4 DEF Newest
    <3> QED BY <3>1, <3>2
  <2> QED BY <2>3, <2>4 DEF Without
<1> QED BY <1>2, <1>3

\* A flush during a merge brings only newer entries.
LEMMA FlushForgets ==
  ASSUME NEW C, NEW I \in SUBSET C, NEW O, Forgets(C, I, O), NEW M, Later(M, C)
  PROVE  Forgets(C \cup M, I, O)
<1> SUFFICES ASSUME NEW e \in I, Newest(I, e), e \notin O
             PROVE  /\ e.type = kTypeDeletion /\ Without(O, e.key)
                    /\ \A o \in (C \cup M) \ I : o.key = e.key => o.seq > e.seq
  BY DEF Forgets
<1>1. /\ e.type = kTypeDeletion /\ Without(O, e.key)
      /\ \A o \in C \ I : o.key = e.key => o.seq > e.seq
  BY DEF Forgets
<1>2. \A o \in M : o.seq > e.seq
  BY DEF Later
<1> QED BY <1>1, <1>2

\* The tables of a version after a merge or a move.
LEMMA ReplacedContents ==
  ASSUME NEW v, Version(v), Distinct(v), NEW c, InputsStand(v, c),
         NEW made, \A f \in made : f.entries \subseteq InputEntries(c),
         NEW w, LevelsReplaced(v, c, made, w)
  PROVE  /\ Contents(w) = (Contents(v) \ InputEntries(c)) \cup UNION {f.entries : f \in made}
         /\ InputEntries(c) \subseteq Contents(v)
<1>1. c.level \in Levels /\ c.level + 1 \in Levels /\ c.level # c.level + 1
  BY MergeLevels DEF Levels
<1>2. /\ FilesOf(c.inputs0) \subseteq FilesOf(v[c.level])
      /\ FilesOf(c.inputs1) \subseteq FilesOf(v[c.level + 1])
  BY DEF InputsStand
<1>3. InputFiles(c) \subseteq AllFiles(v)
  BY <1>1, <1>2 DEF InputFiles, AllFiles
<1>4. \A l1, l2 \in Levels : \A f : f \in FilesOf(v[l1]) /\ f \in FilesOf(v[l2]) => l1 = l2
  BY DEF Distinct
<1>5. ASSUME NEW l \in Levels, NEW f \in FilesOf(w[l]), f \notin made
      PROVE  f \in AllFiles(v) /\ f \notin InputFiles(c)
  <2>1. f \in Replaced(v, c, made, l)
    BY <1>5 DEF LevelsReplaced
  <2>2. /\ f \in FilesOf(v[l]) /\ (l = c.level => f \notin FilesOf(c.inputs0))
        /\ (l = c.level + 1 => f \notin FilesOf(c.inputs1))
    BY ONLY <1>1, <1>5, <2>1 DEF Replaced
  <2>3. f \notin FilesOf(c.inputs0)
    BY <1>1, <1>2, <1>4, <2>2
  <2>4. f \notin FilesOf(c.inputs1)
    BY <1>1, <1>2, <1>4, <2>2
  <2> QED BY <2>2, <2>3, <2>4 DEF AllFiles, InputFiles
<1>6. ASSUME NEW l \in Levels, NEW f \in FilesOf(v[l]), f \notin InputFiles(c)
      PROVE  f \in AllFiles(w)
  <2>1. f \in Replaced(v, c, made, l)
    BY <1>6 DEF Replaced, InputFiles
  <2> QED BY <2>1 DEF LevelsReplaced, AllFiles
<1>7. made \subseteq AllFiles(w)
  <2>1. made \subseteq Replaced(v, c, made, c.level + 1)
    BY <1>1 DEF Replaced
  <2> QED BY <1>1, <2>1 DEF LevelsReplaced, AllFiles
<1>8. InputEntries(c) \subseteq Contents(v)
  BY <1>3 DEF InputEntries, Contents
<1>9. ASSUME NEW x \in Contents(w), x \notin UNION {f.entries : f \in made}
      PROVE  x \in Contents(v) \ InputEntries(c)
  <2>1. PICK l \in Levels : \E f \in FilesOf(w[l]) : x \in f.entries
    BY DEF Contents, AllFiles
  <2>2. PICK f \in FilesOf(w[l]) : x \in f.entries
    BY <2>1
  <2>3. f \in AllFiles(v) /\ f \notin InputFiles(c)
    BY <1>5, <1>9, <2>2
  <2>4. \A g \in InputFiles(c) : x \notin g.entries
    BY <1>3, <2>2, <2>3 DEF Distinct
  <2> QED BY <2>2, <2>3, <2>4 DEF InputEntries, Contents
<1>10. ASSUME NEW x \in Contents(v), x \notin InputEntries(c) PROVE x \in Contents(w)
  <2>1. PICK l \in Levels : \E f \in FilesOf(v[l]) : x \in f.entries
    BY DEF Contents, AllFiles
  <2>2. PICK f \in FilesOf(v[l]) : x \in f.entries
    BY <2>1
  <2>3. f \notin InputFiles(c)
    BY <1>10, <2>2 DEF InputEntries
  <2>4. f \in AllFiles(w)
    BY <1>6, <2>2, <2>3
  <2> QED BY <2>2, <2>4 DEF Contents
<1>11. UNION {f.entries : f \in made} \subseteq Contents(w)
  BY <1>7 DEF Contents
<1> QED BY <1>8, <1>9, <1>10, <1>11

\* What is not an input of a compaction, and not below its outputs, is newer.
LEMMA OthersKeepTheirPlace ==
  ASSUME NEW v, Version(v), LevelsAreNewer(v), NEW c, InputsStand(v, c), OthersAreNewer(v, c),
         NEW l \in Levels, l <= c.level + 1, NEW g \in FilesOf(v[l]), g \notin InputFiles(c),
         NEW h \in InputFiles(c)
  PROVE  Newer(g.entries, h.entries)
<1>1. c.level \in Levels /\ c.level + 1 \in Levels /\ c.level \in Int /\ l \in Int
  BY MergeLevels DEF Levels
<1>2. h \in FilesOf(v[c.level]) \/ h \in FilesOf(v[c.level + 1])
  BY DEF InputsStand, InputFiles
<1>3. CASE l = c.level + 1
  <2>1. KeysBeside(g, InputFiles(c))
    BY <1>3 DEF OthersAreNewer, InputFiles
  <2>2. KeysBeside(g, {h})
    BY <2>1 DEF KeysBeside
  <2>3. g \in File /\ h \in File
    BY <1>1, <1>2, VersionFilesAreFiles
  <2> QED BY <2>2, <2>3, NoSharedKey
<1>4. CASE l = c.level
  BY <1>4 DEF OthersAreNewer, InputFiles
<1>5. CASE l < c.level
  <2>1. l < c.level + 1
    BY <1>1, <1>5
  <2> QED BY <1>1, <1>2, <1>5, <2>1 DEF LevelsAreNewer
<1> QED BY <1>1, <1>3, <1>4, <1>5

-----------------------------------------------------------------------------
(* The invariant of the entries that are found                             *)

\* The placeholder for "no entry" and "no memtable" is neither.
NullIsNoTable == NULL \notin Entry /\ NULL \notin SUBSET Entry

Written(h) == {InternalKey(h[i].key, i, h[i].type) : i \in DOMAIN h}
InMemory(m, i) == m \cup MemEntries(i)
MadeEntries(m) == UNION {f.entries : f \in Made(m)}

Level0IsNewer(v) ==
  \A f, g \in FilesOf(v[0]) : f.number > g.number => Newer(f.entries, g.entries)

LatestInv ==
  /\ Level0IsNewer(version)
  /\ InMemory(mem, imm) \cup Contents(version) \subseteq Written(history)
  /\ Retains(Written(history), InMemory(mem, imm) \cup Contents(version))
  /\ compaction # NULL =>
       Forgets(Contents(version), InputEntries(compaction.c), MadeEntries(compaction))

\* A write is an entry, and its sequence number says which one.
LEMMA WrittenAreEntries ==
  ASSUME NEW h \in Seq([key : Keys, type : {kTypeDeletion, kTypeValue}]), Len(h) <= MaxWrites
  PROVE  /\ Written(h) \subseteq Entry /\ Unique(Written(h))
         /\ \A e \in Written(h) : e.seq \in DOMAIN h /\ e = InternalKey(h[e.seq].key, e.seq, h[e.seq].type)
<1>1. MaxWrites \in Nat /\ Len(h) \in Nat /\ DOMAIN h = 1 .. Len(h)
  BY LSMAssumption
<1>2. ASSUME NEW e \in Written(h)
      PROVE  /\ e \in Entry /\ e.seq \in DOMAIN h
             /\ e = InternalKey(h[e.seq].key, e.seq, h[e.seq].type)
  <2>1. PICK i \in DOMAIN h : e = InternalKey(h[i].key, i, h[i].type)
    BY DEF Written
  <2>2. h[i] \in [key : Keys, type : {kTypeDeletion, kTypeValue}]
    <3> DEFINE T == [key : Keys, type : {kTypeDeletion, kTypeValue}]
    <3>1. h \in Seq(T) /\ i \in DOMAIN h
      OBVIOUS
    <3> HIDE DEF T
    <3>2. h[i] \in T
      BY <3>1
    <3> QED BY <3>2 DEF T
  <2>3. i \in 1 .. MaxWrites
    BY <1>1
  <2>4. e.seq = i
    BY <2>1 DEF InternalKey
  <2>5. e \in Entry
    BY <2>1, <2>2, <2>3 DEF InternalKey, Entry
  <2> QED BY <2>1, <2>4, <2>5
<1>3. Unique(Written(h))
  BY <1>2 DEF Unique
<1> QED BY <1>2, <1>3

\* In an empty database nothing is to be found.
LEMMA LatestInvInit == Init => LatestInv
<1> SUFFICES ASSUME Init PROVE LatestInv
  OBVIOUS
<1>1. \A level \in Levels : FilesOf(version[level]) = {}
  BY DEF Init, FilesOf
<1>2. AllFiles(version) = {} /\ Contents(version) = {}
  BY <1>1 DEF AllFiles, Contents
<1>3. 0 \in Levels
  BY LevelsAssumption DEF Levels
<1>4. Level0IsNewer(version)
  BY <1>1, <1>3 DEF Level0IsNewer
<1>5. Written(history) = {} /\ InMemory(mem, imm) = {} /\ compaction = NULL
  BY DEF Init, Written, InMemory, MemEntries
<1>6. Retains(Written(history), InMemory(mem, imm) \cup Contents(version))
  BY <1>5 DEF Retains
<1> QED BY <1>2, <1>4, <1>5, <1>6 DEF LatestInv

\* DBImpl::Write: the new entry is the newest of its key.
LEMMA WriteKeepsLatest ==
  ASSUME LevelsInv, LatestInv, Write
  PROVE  LatestInv'
<1>1. PICK script \in Scripts : /\ LastSequence < MaxWrites
                                /\ history' = Append(history, script[LastSequence + 1])
                                /\ mem' = mem \cup {InternalKey(script[LastSequence + 1].key,
                                            LastSequence + 1, script[LastSequence + 1].type)}
  BY DEF Write
<1> DEFINE op == script[LastSequence + 1]
           e == InternalKey(op.key, LastSequence + 1, op.type)
           n == Len(history)
           T == [key : Keys, type : {kTypeDeletion, kTypeValue}]
           M == InMemory(mem, imm) \cup Contents(version)
<1>2. UNCHANGED <<imm, version, compaction>>
  BY DEF Write
<1>3. history \in Seq(T) /\ n \in Nat /\ n <= MaxWrites
  BY DEF LevelsInv, ClientsInv
<1>4. LastSequence = n /\ op \in T
  <2>1. LastSequence = n /\ LastSequence + 1 \in 1 .. MaxWrites
    BY <1>1, <1>3, LSMAssumption DEF LastSequence
  <2> QED BY <2>1, LSMAssumption
<1>5. history' = Append(history, op) /\ mem' = mem \cup {e} /\ e.seq = n + 1
  BY <1>1, <1>4 DEF InternalKey
<1>6. Written(history') = Written(history) \cup {e}
  <2>1. /\ DOMAIN history' = DOMAIN history \cup {n + 1} /\ history'[n + 1] = op
        /\ \A i \in DOMAIN history : history'[i] = history[i]
    <3> HIDE DEF op, T
    <3> QED BY <1>3, <1>4, <1>5
  <2>2. e = InternalKey(op.key, n + 1, op.type)
    BY <1>4
  <2> HIDE DEF e, op
  <2> QED BY <2>1, <2>2 DEF Written
<1>7. InMemory(mem', imm') \cup Contents(version') = M \cup {e}
  <2> HIDE DEF e
  <2> QED BY <1>2, <1>5 DEF InMemory, MemEntries
<1>8. \A o \in Written(history) : o.seq \in Int /\ o.seq < e.seq
  <2>1. \A o \in Written(history) : o.seq \in DOMAIN history
    BY <1>3, WrittenAreEntries
  <2> HIDE DEF e
  <2> QED BY <1>3, <1>5, <2>1
<1>9. M \in SUBSET Written(history) /\ Retains(Written(history), M)
  BY DEF LatestInv
<1>10. e.seq \in Int
  <2> HIDE DEF e
  <2> QED BY <1>3, <1>5
<1> HIDE DEF e, M, op
<1>11. Retains(Written(history) \cup {e}, M \cup {e})
  BY <1>8, <1>9, <1>10, WriteRetains
<1> QED BY <1>2, <1>6, <1>7, <1>9, <1>11 DEF LatestInv

\* MakeRoomForWrite: the memtable becomes the immutable one, with its entries.
LEMMA SwitchKeepsLatest ==
  ASSUME NullIsNoTable, LevelsInv, LatestInv, MakeRoomForWrite
  PROVE  LatestInv'
<1>1. /\ imm = NULL /\ imm' = mem /\ mem' = {} /\ UNCHANGED <<history, version, compaction>>
  BY DEF MakeRoomForWrite, SwitchMemTable
<1>2. mem # NULL
  BY DEF NullIsNoTable, LevelsInv, ClientsInv
<1>3. InMemory(mem', imm') = InMemory(mem, imm)
  BY <1>1, <1>2 DEF InMemory, MemEntries
<1> QED BY <1>1, <1>3 DEF LatestInv

\* CompactMemTable: the entries go from memory to a new file, the newest of its
\* level.
LEMMA FlushKeepsLatest ==
  ASSUME NullIsNoTable, LevelsInv, EntriesInv, LatestInv, CompactMemTable
  PROVE  LatestInv'
<1>1. /\ imm # NULL /\ imm' = NULL /\ UNCHANGED <<history, mem, compaction>> /\ MemEntries(imm) = imm
      /\ imm \in SUBSET Entry /\ IsFiniteSet(imm) /\ MemEntries(imm') = {}
  BY DEF CompactMemTable, FlushImm, MemEntries, LevelsInv, ClientsInv
<1>2. Version(version) /\ next_file \in Nat /\ Numbered(version, next_file)
  BY DEF LevelsInv, VersionInv
<1>3. Later(imm, Contents(version))
  BY <1>1 DEF EntriesInv, AgesInv
<1>4. 0 \in Levels
  BY LevelsAssumption DEF Levels
<1>5. Level0IsNewer(version') /\ Contents(version') = Contents(version) \cup imm
  <2>1. CASE imm = {}
    <3>1. version' = ApplyEdit(version, {}, {})
      BY <2>1 DEF CompactMemTable, FlushImm, LogAndApply
    <3>2. \A level \in Levels : FilesOf(version'[level]) = FilesOf(version[level])
      <4>1. next_file <= next_file
        BY <1>2
      <4> QED BY <1>2, <3>1, <4>1, EmptyEdit
    <3>3. AllFiles(version') = AllFiles(version)
      BY <3>2 DEF AllFiles
    <3> QED BY <1>4, <2>1, <3>2, <3>3 DEF Level0IsNewer, LatestInv, Contents
  <2>2. CASE imm # {}
    <3> DEFINE a == FlushedFile(version, next_file, imm)
    <3>1. version' = ApplyEdit(version, {}, {a})
      BY <2>2 DEF CompactMemTable, FlushImm, LogAndApply, FlushedFile
    <3>2. \A level \in Levels : FilesOf(version'[level])
             = FilesOf(version[level]) \cup (IF level = a[1] THEN {a[2]} ELSE {})
      BY <1>1, <1>2, <2>2, <3>1, FlushedVersion
    <3>3. a[1] \in Levels /\ a[2].number = next_file /\ a[2].entries = imm
      BY <1>1, <1>2, <2>2, FlushedFileIsApart
    <3> HIDE DEF a
    <3>4. AllFiles(version') = AllFiles(version) \cup {a[2]}
      BY <3>2, <3>3 DEF AllFiles
    <3>5. Contents(version') = Contents(version) \cup imm
      BY <3>3, <3>4 DEF Contents
    <3>6. ASSUME NEW f \in FilesOf(version'[0]), NEW g \in FilesOf(version'[0]), f.number > g.number
          PROVE  Newer(f.entries, g.entries)
      <4>1. \A h \in FilesOf(version'[0]) : h \in FilesOf(version[0]) \/ h = a[2]
        BY <1>4, <3>2
      <4>2. \A h \in FilesOf(version[0]) : /\ h.number \in Nat /\ h.number < next_file
                                           /\ h.entries \subseteq Contents(version)
        <5>1. FilesOf(version[0]) \subseteq AllFiles(version)
          BY <1>4 DEF AllFiles
        <5> QED BY <1>2, <5>1, VersionFilesAreFiles DEF Numbered, Contents
      <4>3. CASE f \in FilesOf(version[0]) /\ g \in FilesOf(version[0])
        BY <3>6, <4>3 DEF LatestInv, Level0IsNewer
      <4>4. CASE f = a[2] /\ g \in FilesOf(version[0])
        BY <1>3, <3>3, <4>2, <4>4 DEF Later, Newer
      <4>5. g # a[2]
        <5> SUFFICES ASSUME g = a[2] PROVE FALSE
          OBVIOUS
        <5>1. f.number > next_file
          BY <3>3, <3>6
        <5>2. f.number < next_file \/ f.number = next_file
          BY <3>3, <4>1, <4>2
        <5>3. f.number \in Nat
          BY <1>2, <3>3, <4>1, <4>2
        <5> QED BY <1>2, <5>1, <5>2, <5>3
      <4> QED BY <4>1, <4>3, <4>4, <4>5
    <3> QED BY <3>5, <3>6 DEF Level0IsNewer
  <2> QED BY <2>1, <2>2
<1>6. InMemory(mem', imm') \cup Contents(version') = InMemory(mem, imm) \cup Contents(version)
  BY <1>1, <1>5 DEF InMemory
<1>7. compaction # NULL =>
        Forgets(Contents(version'), InputEntries(compaction.c), MadeEntries(compaction))
  <2> SUFFICES ASSUME compaction # NULL
               PROVE  Forgets(Contents(version'), InputEntries(compaction.c), MadeEntries(compaction))
    OBVIOUS
  <2>1. InputEntries(compaction.c) \in SUBSET Contents(version)
    <3>1. InputsStand(version, compaction.c)
      BY DEF LevelsInv, CompactionInv, MergeStands
    <3>2. compaction.c.level \in Levels /\ compaction.c.level + 1 \in Levels
      BY <3>1, MergeLevels
    <3>3. InputFiles(compaction.c) \subseteq AllFiles(version)
      BY <3>1, <3>2 DEF InputsStand, InputFiles, AllFiles
    <3> QED BY <3>3 DEF InputEntries, Contents
  <2>2. Forgets(Contents(version), InputEntries(compaction.c), MadeEntries(compaction))
    BY DEF LatestInv
  <2> QED BY <1>3, <1>5, <2>1, <2>2, FlushForgets
<1> QED BY <1>1, <1>5, <1>6, <1>7 DEF LatestInv

\* DoCompactionWork: what the merge leaves out, no reader misses.
LEMMA StartKeepsLatest ==
  ASSUME LevelsInv, EntriesInv, NewerInv, LatestInv, NEW level \in 0 .. kNumLevels - 2, NEW c,
         Inputs(version, level, c), StartCompaction(c, FALSE)
  PROVE  /\ compaction'.c = c
         /\ Forgets(Contents(version), InputEntries(c), MadeEntries(compaction'))
<1> DEFINE out == CompactionOutputs(version, c, SmallestSnapshot)
           P == Kept(version, c, SmallestSnapshot, MergeInput(c))
           m == [c |-> c, is_manual |-> FALSE, outputs |-> NewFiles(c, next_file, out)]
           input == MergeInput(c)
           I == InputEntries(c)
<1>1. compaction' = m
  BY DEF StartCompaction, NewFiles
<1>2. Version(version) /\ next_file \in Nat /\ Numbered(version, next_file) /\ LevelsAreNewer(version)
  BY DEF LevelsInv, VersionInv, NewerInv
<1>3. OthersAreNewer(version, c) /\ InputsStand(version, c)
  BY <1>2, OthersAtTheStart, InputsAreThere
<1>4. c.inputs0 \in Seq(File) /\ c.inputs1 \in Seq(File) /\ c.grandparents \in Seq(File)
  BY DEF Inputs, Chosen
<1>5. InPieces(out, P) /\ P \subseteq I
  <2> HIDE DEF out, P
  <2>1. /\ InPieces(CompactionOutputs(version, c, SmallestSnapshot),
                    Kept(version, c, SmallestSnapshot, MergeInput(c)))
        /\ Kept(version, c, SmallestSnapshot, MergeInput(c))
             \subseteq UNION {f.entries : f \in FilesOf(c.inputs0) \cup FilesOf(c.inputs1)}
    BY ONLY <1>4, OutputsInPieces
  <2> QED BY <2>1 DEF out, P, InputEntries, InputFiles
<1>6. I \subseteq Contents(version) /\ I \subseteq Entry /\ c.level \in Levels /\ c.level + 1 \in Levels
  <2>1. c.level \in Levels /\ c.level + 1 \in Levels
    BY <1>3, MergeLevels
  <2>2. InputFiles(c) \subseteq AllFiles(version)
    BY <1>3, <2>1 DEF InputsStand, InputFiles, AllFiles
  <2>3. Contents(version) \subseteq Entry
    BY <1>2, ContentsAreEntries
  <2>4. I \subseteq Contents(version)
    BY <2>2 DEF InputEntries, Contents
  <2> QED BY <2>1, <2>3, <2>4
<1>7. SmallestSnapshot = Len(history) /\ Len(history) \in Nat /\ Len(history) < kMaxSequenceNumber
  <2>1. SmallestSnapshot = Len(history) /\ Len(history) \in Nat /\ Len(history) <= MaxWrites
    BY DEF SmallestSnapshot, LastSequence, NewerInv, LevelsInv, ClientsInv
  <2>2. MaxWrites \in Nat /\ MaxWrites < kMaxSequenceNumber
    BY LSMAssumption
  <2>3. kMaxSequenceNumber \in Nat
    BY SMT DEF kMaxSequenceNumber
  <2> QED BY <2>1, <2>2, <2>3
<1>8. Unique(I)
  <2>1. I \subseteq Written(history)
    BY <1>6 DEF LatestInv
  <2>2. Unique(Written(history))
    BY WrittenAreEntries DEF LevelsInv, ClientsInv
  <2> QED BY <2>1, <2>2 DEF Unique
<1>9. ASSUME NEW e \in I, Newest(I, e), e \notin P
      PROVE  /\ e.type = kTypeDeletion /\ IsBaseLevelForKey(version, c, e.key)
             /\ Without(P, e.key)
  <2>1. /\ input \in Seq(Entry)
        /\ \A i, j \in DOMAIN input : i < j => Less(input[i], input[j])
        /\ I = {input[i] : i \in DOMAIN input}
    BY <1>4, InputInOrder DEF InputEntries, InputFiles
  <2>2. \A i \in DOMAIN input : input[i].seq <= SmallestSnapshot
    <3> HIDE DEF input
    <3> QED BY <1>6, <1>7, <2>1 DEF EntriesInv, AgesInv
  <2>3. e \notin Kept(version, c, SmallestSnapshot, input)
    BY <1>9
  <2> HIDE DEF input, I
  <2>4. SmallestSnapshot \in Nat /\ SmallestSnapshot < kMaxSequenceNumber
    BY <1>7
  <2>5. /\ e.type = kTypeDeletion /\ IsBaseLevelForKey(version, c, e.key)
        /\ Without(Kept(version, c, SmallestSnapshot, input), e.key)
    BY ONLY <1>8, <1>9, <2>1, <2>2, <2>3, <2>4, NewestIsKept
  <2> QED BY <2>5 DEF input
<1> HIDE DEF input, out, P
<1>10. MadeEntries(m) = P
  <2>1. WrittenFiles(Made(m), next_file, out)
    <3>1. \A f \in AllFiles(version) : f.number \in Nat
      BY <1>2, VersionFilesAreFiles
    <3>2. m.c = c /\ m.outputs = NewFiles(c, next_file, out)
      OBVIOUS
    <3> HIDE DEF m
    <3>3. /\ next_file \in Nat /\ Numbered(version, next_file) /\ \A f \in AllFiles(version) : f.number \in Nat
          /\ P \subseteq InputEntries(c) /\ InPieces(out, P)
          /\ m.c = c /\ m.outputs = NewFiles(c, next_file, out)
      BY <1>2, <1>5, <3>1, <3>2
    <3> QED BY ONLY <3>3, OutputsAreGood
  <2> DEFINE G(i) == FileMetaData(next_file + i - 1, out[i])
  <2>2. Made(m) = {G(i) : i \in DOMAIN out} /\ \A i \in DOMAIN out : G(i).entries = out[i]
    BY <2>1 DEF WrittenFiles
  <2>3. (\A i \in DOMAIN out : out[i] \subseteq P) /\ \A e \in P : \E i \in DOMAIN out : e \in out[i]
    BY <1>5 DEF InPieces
  <2> HIDE DEF G, m
  <2> QED BY <2>2, <2>3 DEF MadeEntries
<1>11. ASSUME NEW e \in I, e.type = kTypeDeletion, IsBaseLevelForKey(version, c, e.key),
              NEW o \in Contents(version) \ I, o.key = e.key
       PROVE  o.seq > e.seq
  <2>1. PICK h \in InputFiles(c) : e \in h.entries
    BY DEF InputEntries
  <2>2. PICK l \in Levels : \E g \in FilesOf(version[l]) : o \in g.entries
    BY DEF Contents, AllFiles
  <2>3. PICK g \in FilesOf(version[l]) : o \in g.entries
    BY <2>2
  <2>4. g \notin InputFiles(c)
    BY <2>3 DEF InputEntries
  <2>5. e.key \in Keys /\ c.level \in 0 .. kNumLevels - 2
    BY <1>3, <1>6, EntriesAreKeys DEF InputsStand
  <2>6. CASE l <= c.level + 1
    <3>1. Newer(g.entries, h.entries)
      BY <1>2, <1>3, <2>4, <2>6, OthersKeepTheirPlace
    <3> QED BY <1>11, <2>1, <2>3, <3>1 DEF Newer
  <2>7. CASE l > c.level + 1
    <3>1. Without(g.entries, e.key)
      BY <1>2, <1>11, <2>5, <2>7, NothingBelow
    <3> QED BY <1>11, <2>3, <3>1 DEF Without
  <2>8. l <= c.level + 1 \/ l > c.level + 1
    BY <1>6 DEF Levels
  <2> QED BY <2>6, <2>7, <2>8
<1> HIDE DEF I
<1>12. Forgets(Contents(version), I, P)
  BY <1>9, <1>11 DEF Forgets
<1> QED BY <1>1, <1>10, <1>12 DEF I

\* The entries of the version give way to O, and readers find what they found.
LEMMA ReplacedKeepsLatest ==
  ASSUME LevelsInv, EntriesInv, LatestInv, NEW c, InputsStand(version, c),
         NEW made, \A f \in made : f.entries \subseteq InputEntries(c),
         NEW w, LevelsReplaced(version, c, made, w),
         Forgets(Contents(version), InputEntries(c), UNION {f.entries : f \in made})
  PROVE  /\ Level0IsNewer(w)
         /\ InMemory(mem, imm) \cup Contents(w) \subseteq Written(history)
         /\ Retains(Written(history), InMemory(mem, imm) \cup Contents(w))
<1> DEFINE O == UNION {f.entries : f \in made}
           I == InputEntries(c)
           C == Contents(version)
           M == InMemory(mem, imm)
           S == Written(history)
<1>1. Version(version) /\ Distinct(version)
  BY DEF LevelsInv, VersionInv, EntriesInv
<1>2. Contents(w) = (C \ I) \cup O /\ I \subseteq C
  BY <1>1, ReplacedContents
<1>3. O \subseteq I
  OBVIOUS
<1>4. M \cup C \subseteq S /\ Retains(S, M \cup C)
  BY DEF LatestInv
<1>5. Later(M, C)
  BY DEF EntriesInv, AgesInv, Later, InMemory
<1>6. \A e \in S : e.seq \in Int
  <2>1. S \subseteq Entry
    BY WrittenAreEntries DEF LevelsInv, ClientsInv
  <2> HIDE DEF S
  <2> QED BY <2>1, EntriesAreKeys
<1>7. Forgets(C, I, O)
  OBVIOUS
<1>8. Level0IsNewer(w)
  <2>1. 0 \in Levels /\ 0 # c.level + 1
    <3>1. c.level \in 0 .. kNumLevels - 2
      BY DEF InputsStand
    <3> QED BY <3>1, LevelsAssumption DEF Levels
  <2>2. FilesOf(w[0]) \subseteq FilesOf(version[0])
    BY <2>1 DEF LevelsReplaced, Replaced
  <2> QED BY <2>2 DEF Level0IsNewer, LatestInv
<1> HIDE DEF O, I, C, M, S
<1>9. Retains(S, M \cup ((C \ I) \cup O))
  BY ONLY <1>2, <1>3, <1>4, <1>5, <1>6, <1>7, MergeRetains
<1>10. M \cup Contents(w) \subseteq S
  BY <1>2, <1>3, <1>4
<1> QED BY <1>2, <1>8, <1>9, <1>10 DEF M, S

\* InstallCompactionResults.
LEMMA InstallKeepsLatest ==
  ASSUME LevelsInv, EntriesInv, LatestInv, InstallCompactionResults
  PROVE  LatestInv'
<1>1. /\ compaction # NULL /\ compaction' = NULL
      /\ version' = ApplyEdit(version, AddInputDeletions(compaction.c), compaction.outputs)
      /\ UNCHANGED <<history, mem, imm>>
  BY DEF InstallCompactionResults, LogAndApply
<1>2. Version(version) /\ next_file \in Nat /\ Numbered(version, next_file)
      /\ MergeStands(version, next_file, compaction) /\ InputsStand(version, compaction.c)
      /\ OutputsStand(version, next_file, compaction)
  BY <1>1 DEF LevelsInv, VersionInv, CompactionInv, MergeStands
<1>3. LevelsReplaced(version, compaction.c, Made(compaction), version')
  BY <1>1, <1>2, InstalledVersion DEF LevelsReplaced
<1>4. \A f \in Made(compaction) : f.entries \subseteq InputEntries(compaction.c)
  BY <1>2 DEF OutputsStand
<1>5. Forgets(Contents(version), InputEntries(compaction.c), UNION {f.entries : f \in Made(compaction)})
  BY <1>1 DEF LatestInv, MadeEntries
<1>6. /\ Level0IsNewer(version')
      /\ InMemory(mem, imm) \cup Contents(version') \subseteq Written(history)
      /\ Retains(Written(history), InMemory(mem, imm) \cup Contents(version'))
  BY <1>2, <1>3, <1>4, <1>5, ReplacedKeepsLatest
<1> QED BY <1>1, <1>6 DEF LatestInv

\* BackgroundCompaction moves a file or starts a compaction.
LEMMA AutomaticKeepsLatest ==
  ASSUME LevelsInv, EntriesInv, NewerInv, LatestInv, BackgroundAutomatic
  PROVE  LatestInv'
<1> DEFINE c == PickCompaction(version, compact_pointer, file_to_compact)
<1>1. /\ UNCHANGED <<history, mem, imm>>
      /\ compaction = NULL /\ NeedsCompaction(version, file_to_compact)
  BY DEF BackgroundAutomatic
<1>2. /\ version \in [Levels -> Seq(File)] /\ Charged(version, file_to_compact)
      /\ Version(version) /\ next_file \in Nat /\ Numbered(version, next_file)
  BY DEF LevelsInv, VersionInv, Version
<1>3. PICK level \in 0 .. kNumLevels - 2 : Inputs(version, level, c)
  BY <1>1, <1>2, PickIsGood
<1> HIDE DEF c
<1>4. CASE IsTrivialMove(c)
  <2>1. /\ version' = ApplyEdit(version, {<<c.level, c.inputs0[1]>>}, {<<c.level + 1, c.inputs0[1]>>})
        /\ compaction' = NULL
    BY <1>1, <1>4 DEF BackgroundAutomatic, LogAndApply, c
  <2> DEFINE f == c.inputs0[1]
  <2>2. LevelsReplaced(version, c, {f}, version') /\ FilesOf(c.inputs0) = {f} /\ FilesOf(c.inputs1) = {}
    BY <1>2, <1>3, <1>4, <2>1, MovedVersion
  <2> HIDE DEF f
  <2>3. InputsStand(version, c)
    BY <1>2, <1>3, InputsAreThere
  <2>4. InputEntries(c) = f.entries /\ UNION {g.entries : g \in {f}} = f.entries
    BY <2>2 DEF InputEntries, InputFiles
  <2>5. Forgets(Contents(version), InputEntries(c), UNION {g.entries : g \in {f}})
    BY <2>4 DEF Forgets
  <2>6. \A g \in {f} : g.entries \subseteq InputEntries(c)
    BY <2>4
  <2> DEFINE made == {f}
  <2>7. /\ LevelsReplaced(version, c, made, version') /\ (\A g \in made : g.entries \subseteq InputEntries(c))
        /\ Forgets(Contents(version), InputEntries(c), UNION {g.entries : g \in made})
    BY <2>2, <2>5, <2>6
  <2> HIDE DEF made
  <2>8. /\ Level0IsNewer(version')
        /\ InMemory(mem, imm) \cup Contents(version') \subseteq Written(history)
        /\ Retains(Written(history), InMemory(mem, imm) \cup Contents(version'))
    BY <2>3, <2>7, ReplacedKeepsLatest
  <2> QED BY <1>1, <2>1, <2>8 DEF LatestInv
<1>5. CASE ~IsTrivialMove(c)
  <2>1. StartCompaction(c, FALSE) /\ UNCHANGED version
    BY <1>5 DEF BackgroundAutomatic, c
  <2>2. /\ compaction'.c = c
        /\ Forgets(Contents(version), InputEntries(c), MadeEntries(compaction'))
    BY <1>3, <2>1, StartKeepsLatest
  <2> QED BY <1>1, <2>1, <2>2 DEF LatestInv
<1> QED BY <1>4, <1>5

\* No step of the database hides the newest entry of a key.
LEMMA LatestStep ==
  ASSUME NullIsNoTable, MaxRangeCalls = 0, LevelsInv, EntriesInv, NewerInv, LatestInv, [Next]_vars
  PROVE  LatestInv'
<1>1. CASE Write
  BY <1>1, WriteKeepsLatest
<1>2. CASE MakeRoomForWrite
  BY <1>2, SwitchKeepsLatest
<1>3. CASE GetSnapshot
  BY <1>3 DEF GetSnapshot, LatestInv
<1>4. CASE ReleaseSnapshot
  BY <1>4 DEF ReleaseSnapshot, LatestInv
<1>5. ASSUME NEW k \in Keys, NEW s \in ReadPoints, Get(k, s) PROVE LatestInv'
  BY <1>5 DEF Get, LatestInv
<1>6. ASSUME NEW f \in VersionFiles(version), NEW e \in f.entries, RecordReadSample(e)
      PROVE  LatestInv'
  BY <1>6 DEF RecordReadSample, LatestInv
<1>7. CASE CompactRangeCall
  BY <1>7 DEF CompactRangeCall, LevelsInv, ClientsInv
<1>8. CASE ForceMemTable
  BY <1>8 DEF ForceMemTable, LevelsInv, ClientsInv
<1>9. CASE TEST_CompactRange
  BY <1>9 DEF TEST_CompactRange, LevelsInv, ClientsInv
<1>10. CASE CompactMemTable
  BY <1>10, FlushKeepsLatest
<1>11. CASE BackgroundManual
  BY <1>11 DEF BackgroundManual, LevelsInv, ClientsInv
<1>12. CASE BackgroundAutomatic
  BY <1>12, AutomaticKeepsLatest
<1>13. CASE InstallCompactionResults
  BY <1>13, InstallKeepsLatest
<1>14. CASE UNCHANGED vars
  BY <1>14 DEF vars, LatestInv
<1> QED BY <1>1, <1>2, <1>3, <1>4, <1>5, <1>6, <1>7, <1>8, <1>9, <1>10, <1>11, <1>12, <1>13, <1>14
        DEF Next, BackgroundThread

-----------------------------------------------------------------------------
(* What a lookup finds                                                     *)

\* x answers a lookup of the key k among S: the newest entry, or NULL for none.
Answers(S, k, x) ==
  \/ x = NULL /\ Without(S, k)
  \/ Newest(S, x) /\ x.key = k

\* A finite set of entries has a newest one of each of its keys.
LEMMA NewestExists ==
  ASSUME NEW S \in SUBSET Entry, IsFiniteSet(S), NEW k, ~Without(S, k)
  PROVE  \E e : Newest(S, e) /\ e.key = k
<1> DEFINE K == {e \in S : e.key = k}
           e == First(K)
<1>1. K # {} /\ IsFiniteSet(K) /\ K \subseteq S /\ K \in SUBSET IKey
  BY FS_Subset, EntriesAreKeys DEF Without
<1>2. e \in K /\ \A o \in K : LessEq(e, o)
  <2> HIDE DEF K
  <2> QED BY <1>1, FirstAndLast
<1>3. e \in S /\ e.key = k
  BY <1>2
<1> HIDE DEF e
<1>4. ASSUME NEW o \in S, o.key = e.key PROVE o.seq <= e.seq
  <2>1. LessEq(e, o)
    BY <1>2, <1>3, <1>4
  <2>2. e \in IKey /\ o \in IKey
    BY <1>3, EntriesAreKeys
  <2> QED BY <1>4, <2>1, <2>2 DEF LessEq, Less, IKey
<1> QED BY <1>3, <1>4 DEF Newest

\* A key looked up is before every entry of the key, and only before those and
\* the entries of larger keys.
LEMMA SoughtFromHere ==
  ASSUME NEW k \in Int, NEW s \in Nat, NEW e \in IKey, e.seq <= s
  PROVE  /\ LookupKey(k, s) \in IKey /\ LookupKey(k, s).key = k
         /\ LessEq(LookupKey(k, s), e) <=> k <= e.key
<1> DEFINE ikey == LookupKey(k, s)
<1>1. ikey \in IKey /\ ikey.key = k /\ ikey.seq = s /\ ikey.type = kTypeValue
  BY DEF LookupKey, InternalKey, IKey, kValueTypeForSeek
<1> HIDE DEF ikey
<1>2. LessEq(ikey, e) => k <= e.key
  BY <1>1, KeyOrder
<1>3. ASSUME k <= e.key PROVE LessEq(ikey, e)
  <2>1. CASE k < e.key
    BY <1>1, <2>1 DEF LessEq, Less
  <2>2. CASE k = e.key /\ e.seq < s
    BY <1>1, <2>2 DEF LessEq, Less, IKey
  <2>3. CASE k = e.key /\ e.seq = s /\ e.type = kTypeValue
    BY <1>1, <2>3 DEF LessEq, IKey
  <2>4. CASE k = e.key /\ e.seq = s /\ e.type # kTypeValue
    <3>1. e.type = 0 /\ ikey.type = 1
      BY <1>1, <2>4 DEF IKey, kTypeDeletion, kTypeValue
    <3> QED BY <1>1, <2>4, <3>1 DEF LessEq, Less
  <2>5. e.key \in Int /\ e.seq \in Nat
    BY DEF IKey
  <2> QED BY <1>3, <2>1, <2>2, <2>3, <2>4, <2>5
<1> QED BY <1>1, <1>2, <1>3 DEF ikey

\* SaveValue: a sorted run answers a lookup as of now with its newest entry.
LEMMA SaveValueAnswers ==
  ASSUME NEW S \in SUBSET Entry, IsFiniteSet(S), Unique(S),
         NEW s \in Nat, \A e \in S : e.seq <= s, NEW k \in Int
  PROVE  Answers(S, k, SaveValue(S, LookupKey(k, s)))
<1> DEFINE ikey == LookupKey(k, s)
           newest == {e \in S : /\ e.key = ikey.key /\ LessEq(ikey, e)
                                /\ \A o \in S : LessEq(ikey, o) => LessEq(e, o)}
           x == SaveValue(S, ikey)
<1>1. x = IF newest = {} THEN NULL ELSE CHOOSE e \in newest : TRUE
  BY DEF SaveValue
<1>2. S \subseteq IKey
  BY EntriesAreKeys
<1>3. ikey \in IKey /\ ikey.key = k
  BY DEF LookupKey, InternalKey, IKey, kValueTypeForSeek
<1>4. \A e \in S : LessEq(ikey, e) <=> k <= e.key
  BY <1>2, SoughtFromHere
<1> HIDE DEF ikey, x
<1>5. CASE Without(S, k)
  <2>1. newest = {}
    BY <1>3, <1>5 DEF Without
  <2> QED BY <1>1, <1>5, <2>1 DEF Answers, x, ikey
<1>6. CASE ~Without(S, k)
  <2>1. PICK e : Newest(S, e) /\ e.key = k
    BY <1>6, NewestExists
  <2>2. e \in S /\ \A o \in S : o.key = k => o.seq <= e.seq
    BY <2>1 DEF Newest
  <2>3. ASSUME NEW o \in S, LessEq(ikey, o) PROVE LessEq(e, o)
    <3>1. k <= o.key /\ o \in IKey /\ e \in IKey
      BY <1>2, <1>4, <2>2, <2>3
    <3>2. CASE k < o.key
      BY <2>1, <3>2 DEF LessEq, Less
    <3>3. CASE k = o.key
      <4>1. o.seq <= e.seq /\ (o.seq = e.seq => o = e)
        BY <2>2, <3>3 DEF Unique
      <4> QED BY <2>1, <3>1, <3>3, <4>1 DEF LessEq, Less, IKey
    <3>4. o.key \in Int
      BY <3>1 DEF IKey
    <3> QED BY <3>1, <3>2, <3>3, <3>4
  <2>4. LessEq(ikey, e)
    BY <1>4, <2>1, <2>2
  <2>5. e \in newest
    BY <1>3, <2>1, <2>2, <2>3, <2>4
  <2>6. ASSUME NEW o \in newest PROVE o = e
    <3>1. LessEq(o, e) /\ LessEq(e, o) /\ o \in IKey /\ e \in IKey
      BY <1>2, <2>2, <2>3, <2>4
    <3> QED BY <3>1, KeyOrder DEF LessEq
  <2> HIDE DEF newest
  <2>7. x = e
    BY <1>1, <2>5, <2>6
  <2> QED BY <2>1, <2>7 DEF Answers, x, ikey
<1> QED BY <1>5, <1>6

\* The memtables and the tables behind them: what is newer answers first.
LEMMA FirstAnswer ==
  ASSUME NEW S \in SUBSET Entry, NEW T \in SUBSET Entry, NullIsNoTable, Later(S, T), NEW k,
         NEW x, Answers(S, k, x), NEW y, Answers(T, k, y)
  PROVE  Answers(S \cup T, k, IF x # NULL THEN x ELSE y)
<1>0. \A e \in S \cup T : e.seq \in Nat
  BY EntriesAreKeys
<1>1. CASE x = NULL
  <2>1. Without(S, k)
    BY <1>1 DEF Answers, Newest, NullIsNoTable
  <2>2. CASE y = NULL
    <3>1. Without(T, k)
      BY <2>2 DEF Answers, Newest, NullIsNoTable
    <3> QED BY <1>1, <2>1, <2>2, <3>1 DEF Answers, Without
  <2>3. CASE y # NULL
    <3>1. Newest(T, y) /\ y.key = k
      BY <2>3 DEF Answers
    <3> QED BY <1>1, <2>1, <3>1 DEF Answers, Newest, Without
  <2> QED BY <2>2, <2>3
<1>2. CASE x # NULL
  <2>1. Newest(S, x) /\ x.key = k
    BY <1>2 DEF Answers
  <2>2. \A o \in T : o.seq < x.seq
    BY <2>1 DEF Newest, Later
  <2>3. Newest(S \cup T, x)
    BY <1>0, <2>1, <2>2 DEF Newest
  <2> QED BY <1>2, <2>1, <2>3 DEF Answers
<1> QED BY <1>1, <1>2

\* FindFile: the file of a level above 0 that has entries of a key is the one
\* that a lookup of the key opens.
LEMMA TheFileIsSearched ==
  ASSUME NEW v, Version(v), LevelsAreNewer(v), NEW level \in Levels \ {0},
         NEW k \in Int, NEW s \in Nat, \A e \in Contents(v) : e.seq <= s,
         NEW f \in FilesOf(v[level]), NEW e \in f.entries, e.key = k
  PROVE  f \in FilesOf(FilesToSearch(v, level, LookupKey(k, s)))
<1> DEFINE files == v[level]
           ikey == LookupKey(k, s)
           index == FindFile(files, ikey)
<1>1. files \in Seq(File) /\ InOrder(files) /\ FilesOf(files) \subseteq AllFiles(v)
  BY VersionFilesAreFiles DEF Version
<1>2. PICK m \in DOMAIN files : f = files[m]
  BY DEF FilesOf
<1>3. /\ f \in File /\ e \in IKey /\ f.smallest \in IKey /\ f.largest \in IKey
      /\ f.largest \in f.entries /\ f.smallest.key <= k /\ k <= f.largest.key
  <2>1. f \in File
    BY <1>1, <1>2
  <2>2. /\ f.smallest \in Entry /\ f.largest \in Entry /\ e \in Entry
        /\ LessEq(f.smallest, e) /\ LessEq(e, f.largest)
    BY <2>1, FileBounds
  <2>3. f.smallest \in IKey /\ f.largest \in IKey /\ e \in IKey
    BY <2>2, EntriesAreKeys
  <2>4. f.largest \in f.entries
    BY <2>1 DEF File
  <2> QED BY <2>1, <2>2, <2>3, <2>4, KeyOrder
<1>4. ikey \in IKey /\ ikey.key = k /\ LessEq(ikey, f.largest)
  <2>1. f.largest.seq <= s
    BY <1>1, <1>3 DEF Contents
  <2> QED BY <1>3, <2>1, SoughtFromHere
<1> HIDE DEF ikey
<1>5. /\ index \in 1 .. Len(files) + 1 /\ DOMAIN files = 1 .. Len(files) /\ Len(files) \in Nat
      /\ \A j \in DOMAIN files : Less(files[j].largest, ikey) <=> j < index
  BY <1>1, <1>4, FindsFile
<1>6. ~Less(f.largest, ikey)
  BY <1>3, <1>4, KeyOrder DEF LessEq
<1>7. ASSUME NEW j \in DOMAIN files, j < m PROVE Less(files[j].largest, ikey)
  <2> DEFINE g == files[j]
  <2>1. g \in File /\ g \in FilesOf(files) /\ Less(g.largest, f.smallest)
    BY <1>1, <1>2, <1>7 DEF InOrder, FilesOf
  <2> HIDE DEF g
  <2>2. /\ g.largest \in IKey /\ g.smallest \in IKey /\ g.smallest.key <= g.largest.key
        /\ g.smallest.key \in Int /\ g.largest.key \in Int
    BY <2>1, FileBounds, EntriesAreKeys
  <2>3. g.largest.key <= f.smallest.key /\ g # f
    <3>1. g.largest.key <= f.smallest.key
      BY <1>3, <2>1, <2>2, KeyOrder
    <3>2. g # f
      <4> SUFFICES ASSUME g = f PROVE FALSE
        OBVIOUS
      <4>1. Less(f.largest, f.smallest) /\ LessEq(f.smallest, f.largest)
        BY <1>3, <2>1, FileBounds
      <4> QED BY <1>3, <4>1, KeyOrder DEF LessEq
    <3> QED BY <3>1, <3>2
  <2>4. KeysBeside(f, {g})
    BY <2>1, <2>3 DEF LevelsAreNewer
  <2>5. f.largest.key < g.smallest.key \/ g.largest.key < f.smallest.key
    BY <2>4 DEF KeysBeside
  <2>6. f.smallest.key \in Int /\ f.largest.key \in Int
    BY <1>3 DEF IKey
  <2>7. g.largest.key < k
    BY <1>3, <2>2, <2>3, <2>5, <2>6
  <2>8. g.largest.key < ikey.key
    BY <1>4, <2>7
  <2>9. Less(g.largest, ikey)
    BY <1>4, <2>2, <2>8, KeyOrder
  <2> QED BY <2>9 DEF g
<1> HIDE DEF index
<1>8. index = m
  <2>1. ~(m < index)
    BY <1>2, <1>5, <1>6
  <2>2. ASSUME index < m PROVE FALSE
    <3>1. index \in DOMAIN files
      BY <1>5, <2>2
    <3>2. index < index
      BY <1>5, <1>7, <2>2, <3>1
    <3> QED BY <1>5, <3>2
  <2> QED BY <1>5, <2>1, <2>2
<1>9. FilesToSearch(v, level, ikey) = <<f>>
  <2>1. FilesToSearch(v, level, ikey)
          = IF index > Len(files) \/ ikey.key < files[index].smallest.key THEN <<>> ELSE <<files[index]>>
    BY DEF FilesToSearch, index
  <2>2. ~(index > Len(files)) /\ files[index] = f
    BY <1>2, <1>5, <1>8
  <2>3. ~(ikey.key < f.smallest.key)
    BY <1>3, <1>4 DEF IKey
  <2> QED BY <2>1, <2>2, <2>3
<1> QED BY <1>9 DEF FilesOf, ikey

\* The probes of a lookup of k: all files of the levels up to l with entries of
\* the key, those with newer ones first.
NewestDataFirst(v, k, l, probes) ==
  /\ \A i \in DOMAIN probes : probes[i].level <= l
  /\ \A level \in Levels : level <= l =>
       \A f \in FilesOf(v[level]) : Without(f.entries, k) \/ \E i \in DOMAIN probes : probes[i].file = f
  /\ \A i, j \in DOMAIN probes : i < j => Newer(probes[i].file.entries, probes[j].file.entries)

\* x are the probes of level l in a lookup of k: the files of the level with
\* entries of the key, and the newest data first.
NewestOfLevelFirst(v, k, l, x) ==
  /\ x \in Seq(Probes(v)) /\ \A i \in DOMAIN x : x[i].level = l
  /\ \A f \in FilesOf(v[l]) : Without(f.entries, k) \/ \E i \in DOMAIN x : x[i].file = f
  /\ \A i, j \in DOMAIN x : i < j => Newer(x[i].file.entries, x[j].file.entries)

\* In each level ForEachOverlapping finds all files with the key, newest first.
LEMMA ProbesOfTheLevel ==
  ASSUME NEW v, Version(v), LevelsAreNewer(v), Level0IsNewer(v), NEW level \in Levels,
         NEW k \in Int, NEW s \in Nat, \A e \in Contents(v) : e.seq <= s,
         NEW x, x = ProbesIn(v, level, LookupKey(k, s))
  PROVE  NewestOfLevelFirst(v, k, level, x)
<1> DEFINE ikey == LookupKey(k, s)
           list == FilesToSearch(v, level, ikey)
<1>1. ikey \in IKey /\ ikey.key = k
  BY DEF LookupKey, InternalKey, IKey, kValueTypeForSeek
<1> HIDE DEF ikey
<1>2. /\ x = ProbesIn(v, level, ikey) /\ x \in Seq(Probes(v)) /\ \A i \in DOMAIN x : x[i].level = level
      /\ (level # 0 => Len(x) <= 1)
  BY <1>1, ProbesOfALevel DEF ikey
<1>3. DOMAIN x = DOMAIN list /\ \A i \in DOMAIN x : x[i].file = list[i]
  BY <1>2 DEF ProbesIn
<1>4. /\ list \in Seq(File) /\ FilesOf(list) \subseteq FilesOf(v[level])
      /\ level = 0 =>
           /\ \A f \in FilesOf(v[0]) : f.smallest.key <= ikey.key /\ ikey.key <= f.largest.key
                                          => f \in FilesOf(list)
           /\ \A i, j \in DOMAIN list : i < j => list[i].number > list[j].number
  BY <1>1, SearchedFiles
<1> HIDE DEF list
<1>5. ASSUME NEW f \in FilesOf(v[level]), ~Without(f.entries, k)
      PROVE  \E i \in DOMAIN x : x[i].file = f
  <2>1. PICK e \in f.entries : e.key = k
    BY <1>5 DEF Without
  <2>2. f \in FilesOf(list)
    <3>1. CASE level = 0
      <4>1. f \in File
        BY VersionFilesAreFiles
      <4>2. /\ f.smallest \in IKey /\ f.largest \in IKey /\ e \in IKey
            /\ LessEq(f.smallest, e) /\ LessEq(e, f.largest)
        BY <4>1, FileBounds, EntriesAreKeys
      <4>3. f.smallest.key <= k /\ k <= f.largest.key
        BY <2>1, <4>2, KeyOrder
      <4> QED BY <1>1, <1>4, <3>1, <4>3
    <3>2. CASE level # 0
      BY <2>1, <3>2, TheFileIsSearched DEF list, ikey
    <3> QED BY <3>1, <3>2
  <2> QED BY <1>3, <2>2 DEF FilesOf
<1>6. ASSUME NEW i \in DOMAIN x, NEW j \in DOMAIN x, i < j
      PROVE  Newer(x[i].file.entries, x[j].file.entries)
  <2>1. CASE level = 0
    <3>1. list[i] \in FilesOf(v[0]) /\ list[j] \in FilesOf(v[0]) /\ list[i].number > list[j].number
      BY <1>3, <1>4, <1>6, <2>1 DEF FilesOf
    <3>2. Newer(list[i].entries, list[j].entries)
      BY <3>1 DEF Level0IsNewer
    <3> QED BY <1>3, <3>2
  <2>2. CASE level # 0
    <3>1. DOMAIN x = 1 .. Len(x) /\ Len(x) \in Nat
      BY <1>2
    <3> QED BY <1>2, <1>6, <2>2, <3>1
  <2> QED BY <2>1, <2>2
<1> QED BY <1>2, <1>5, <1>6 DEF NewestOfLevelFirst

\* Behind the probes of the levels so far come those of the next one.
LEMMA ProbesOfTheNextLevel ==
  ASSUME NEW v, Version(v), LevelsAreNewer(v), NEW l \in Levels, NEW k,
         NEW p \in Seq(Probes(v)), NewestDataFirst(v, k, l - 1, p),
         NEW x, NewestOfLevelFirst(v, k, l, x)
  PROVE  p \o x \in Seq(Probes(v)) /\ NewestDataFirst(v, k, l, p \o x)
<1> DEFINE T == Probes(v)
           q == p \o x
           n == Len(p)
<1>1. l \in Int /\ Levels \subseteq Int
  BY LevelsAssumption DEF Levels
<1>0. /\ x \in Seq(T) /\ \A i \in DOMAIN x : x[i].level = l
      /\ \A f \in FilesOf(v[l]) : Without(f.entries, k) \/ \E i \in DOMAIN x : x[i].file = f
      /\ \A i, j \in DOMAIN x : i < j => Newer(x[i].file.entries, x[j].file.entries)
  BY DEF NewestOfLevelFirst
<1>2. \A t \in T : t.level \in Levels /\ t.level \in Int /\ t.file \in FilesOf(v[t.level])
  BY <1>1 DEF Probes
<1> HIDE DEF T
<1>3. /\ p \in Seq(T) /\ x \in Seq(T) /\ q \in Seq(T) /\ n \in Nat
      /\ DOMAIN p = 1 .. n /\ DOMAIN x = 1 .. Len(x) /\ Len(x) \in Nat /\ DOMAIN q = 1 .. n + Len(x)
      /\ \A i \in DOMAIN p : q[i] = p[i] /\ i \in DOMAIN q
      /\ \A i \in DOMAIN x : q[n + i] = x[i] /\ n + i \in DOMAIN q
  BY <1>0 DEF T
<1>4. \A i \in DOMAIN q : i \in DOMAIN p \/ (i > n /\ i - n \in DOMAIN x /\ q[i] = x[i - n])
  <2> SUFFICES ASSUME NEW i \in DOMAIN q, i \notin DOMAIN p
               PROVE  i > n /\ i - n \in DOMAIN x /\ q[i] = x[i - n]
    OBVIOUS
  <2>1. i \in Int /\ i > n /\ i - n \in DOMAIN x /\ n + (i - n) = i
    BY <1>3
  <2> QED BY <1>3, <2>1
<1> HIDE DEF q, n
<1>5. \A i \in DOMAIN q : q[i] \in T
  BY <1>3
<1>6. \A i \in DOMAIN q : (i \in DOMAIN p => q[i].level <= l - 1) /\ (i \notin DOMAIN p => q[i].level = l)
  BY <1>0, <1>3, <1>4 DEF NewestDataFirst
<1>7. \A i \in DOMAIN q : q[i].level <= l
  BY <1>1, <1>2, <1>5, <1>6
<1>8. ASSUME NEW level \in Levels, level <= l, NEW f \in FilesOf(v[level]), ~Without(f.entries, k)
      PROVE  \E i \in DOMAIN q : q[i].file = f
  <2>1. CASE level = l
    <3>1. PICK i \in DOMAIN x : x[i].file = f
      BY <1>0, <1>8, <2>1
    <3> QED BY <1>3, <3>1
  <2>2. CASE level # l
    <3>1. level <= l - 1
      <4>1. level \in Int /\ l \in Int /\ level <= l /\ level # l
        BY <1>1, <1>8, <2>2
      <4> QED BY ONLY <4>1
    <3>2. PICK i \in DOMAIN p : p[i].file = f
      BY <1>8, <3>1 DEF NewestDataFirst
    <3> QED BY <1>3, <3>2
  <2> QED BY <2>1, <2>2
<1>9. ASSUME NEW i \in DOMAIN q, NEW j \in DOMAIN q, i < j
      PROVE  Newer(q[i].file.entries, q[j].file.entries)
  <2>1. CASE i \in DOMAIN p /\ j \in DOMAIN p
    BY <1>3, <1>9, <2>1 DEF NewestDataFirst
  <2>2. CASE i \notin DOMAIN p /\ j \notin DOMAIN p
    <3>1. i - n \in DOMAIN x /\ j - n \in DOMAIN x /\ i - n < j - n
      BY <1>3, <1>4, <1>9, <2>2
    <3> QED BY <1>0, <1>4, <2>2, <3>1
  <2>3. CASE i \in DOMAIN p /\ j \notin DOMAIN p
    <3>1. /\ q[i].level \in Levels /\ q[j].level \in Levels /\ q[i].level < q[j].level
          /\ q[i].file \in FilesOf(v[q[i].level]) /\ q[j].file \in FilesOf(v[q[j].level])
      BY <1>1, <1>2, <1>5, <1>6, <2>3
    <3> QED BY <3>1 DEF LevelsAreNewer
  <2>4. i \in DOMAIN p \/ j \notin DOMAIN p
    BY <1>3, <1>9
  <2> QED BY <2>1, <2>2, <2>3, <2>4
<1> QED BY <1>3, <1>7, <1>8, <1>9 DEF NewestDataFirst, T, q

\* ForEachOverlapping lists the files with the key, the newest data first.
LEMMA ProbesInOrder ==
  ASSUME NEW v, Version(v), LevelsAreNewer(v), Level0IsNewer(v),
         NEW k \in Int, NEW s \in Nat, \A e \in Contents(v) : e.seq <= s
  PROVE  /\ ForEachOverlapping(v, LookupKey(k, s)) \in Seq(Probes(v))
         /\ NewestDataFirst(v, k, kNumLevels - 1, ForEachOverlapping(v, LookupKey(k, s)))
<1> DEFINE n == kNumLevels - 1
           ikey == LookupKey(k, s)
           b == -1
<1>1. n \in Nat /\ Levels = 0 .. n /\ b + 1 = 0 /\ b \in Int /\ n \in Int
  BY LevelsAssumption DEF Levels
<1>2. ikey \in IKey
  BY DEF LookupKey, InternalKey, IKey, kValueTypeForSeek
<1>3. PICK u : LevelByLevel(v, ikey, u) /\ ForEachOverlapping(v, ikey) = u[n]
  BY <1>2, ProbesLevelByLevel
<1>4. u[b] = <<>> /\ \A l \in Levels : u[l] = u[l - 1] \o ProbesIn(v, l, ikey)
  BY <1>3 DEF LevelByLevel
<1> DEFINE I == {l \in Int : u[l] \in Seq(Probes(v)) /\ NewestDataFirst(v, k, l, u[l])}
<1>5. b \in I
  <2>1. u[b] \in Seq(Probes(v)) /\ DOMAIN u[b] = {}
    BY <1>4
  <2>2. \A level \in Levels : ~(level <= b)
    BY <1>1
  <2> HIDE DEF b
  <2>3. NewestDataFirst(v, k, b, u[b])
    BY <2>1, <2>2 DEF NewestDataFirst
  <2> QED BY <1>1, <2>1, <2>3
<1>6. ASSUME NEW l \in b + 1 .. n, l - 1 \in I PROVE l \in I
  <2>1. l \in Levels /\ l \in Int
    BY <1>1
  <2> DEFINE p == u[l - 1]
             x == ProbesIn(v, l, ikey)
  <2>2. p \in Seq(Probes(v)) /\ NewestDataFirst(v, k, l - 1, p) /\ u[l] = p \o x
    BY <1>4, <1>6, <2>1
  <2> HIDE DEF p
  <2>3. NewestOfLevelFirst(v, k, l, x)
    BY <2>1, ProbesOfTheLevel
  <2> HIDE DEF x
  <2>4. p \o x \in Seq(Probes(v)) /\ NewestDataFirst(v, k, l, p \o x)
    BY <2>1, <2>2, <2>3, ProbesOfTheNextLevel
  <2> QED BY <2>1, <2>2, <2>4
<1>7. n \in I
  <2> HIDE DEF I, b, n
  <2>1. b .. n \subseteq I
    BY <1>1, <1>5, <1>6, AllIndices
  <2>2. n \in b .. n
    BY <1>1
  <2> QED BY <2>1, <2>2
<1> QED BY <1>3, <1>7

\* Version::Get answers from the first file that has the key, with the newest
\* entry of the tables.
LEMMA VersionGetAnswers ==
  ASSUME NullIsNoTable, NEW v, Version(v), LevelsAreNewer(v), Level0IsNewer(v), Unique(Contents(v)),
         NEW k \in Int, NEW s \in Nat, \A e \in Contents(v) : e.seq <= s
  PROVE  Answers(Contents(v), k, VersionGet(v, LookupKey(k, s)).entry)
<1> DEFINE ikey == LookupKey(k, s)
           probes == ForEachOverlapping(v, ikey)
           A(p) == GetAnswer(p, ikey)
           Found(i) == SaveValue(probes[i].file.entries, ikey)
           hits == {i \in DOMAIN probes : Found(i) # NULL}
           FirstOf(h) == IF h = {} THEN NULL ELSE Found(CHOOSE i \in h : \A j \in h : i <= j)
<1>1. VersionGet(v, ikey) = A(probes)
  <2>1. VersionGet(v, ikey) = CHOOSE r \in {A(p) : p \in {probes}} : TRUE
    BY DEF VersionGet, With
  <2> HIDE DEF A, probes
  <2> QED BY <2>1
<1>2. A(probes).entry = FirstOf(hits)
  <2>1. A(probes).entry = CHOOSE r \in {FirstOf(h) : h \in {hits}} : TRUE
    BY DEF GetAnswer, With
  <2> HIDE DEF A, FirstOf, hits
  <2> QED BY <2>1
<1>3. probes \in Seq(Probes(v)) /\ NewestDataFirst(v, k, kNumLevels - 1, probes)
  BY ProbesInOrder
<1> HIDE DEF probes, A
<1>4. DOMAIN probes = 1 .. Len(probes) /\ Len(probes) \in Nat
  BY <1>3
<1>5. ASSUME NEW i \in DOMAIN probes
      PROVE  /\ probes[i].file.entries \subseteq Contents(v)
             /\ Answers(probes[i].file.entries, k, Found(i))
  <2> DEFINE f == probes[i].file
  <2>1. f \in AllFiles(v)
    BY <1>3 DEF Probes, AllFiles
  <2>2. f \in File
    BY <2>1, VersionFilesAreFiles
  <2>3. f.entries \in SUBSET Entry /\ IsFiniteSet(f.entries) /\ f.entries \subseteq Contents(v)
    BY <2>1, <2>2, FileBounds DEF File, Contents
  <2>4. Unique(f.entries) /\ \A e \in f.entries : e.seq <= s
    BY <2>3 DEF Unique
  <2> HIDE DEF f
  <2>5. Answers(f.entries, k, SaveValue(f.entries, LookupKey(k, s)))
    BY <2>3, <2>4, SaveValueAnswers
  <2> QED BY <2>3, <2>5 DEF f
<1>6. ASSUME NEW o \in Contents(v), o.key = k
      PROVE  \E i \in hits : o \in probes[i].file.entries
  <2>1. PICK level \in Levels : \E f \in FilesOf(v[level]) : o \in f.entries
    BY DEF Contents, AllFiles
  <2>2. PICK f \in FilesOf(v[level]) : o \in f.entries
    BY <2>1
  <2>3. level <= kNumLevels - 1
    BY LevelsAssumption DEF Levels
  <2>4. PICK i \in DOMAIN probes : probes[i].file = f
    BY <1>3, <1>6, <2>2, <2>3 DEF NewestDataFirst, Without
  <2>5. Found(i) # NULL
    <3>1. Answers(f.entries, k, Found(i))
      BY <1>5, <2>4
    <3>2. ~Without(f.entries, k)
      BY <1>6, <2>2 DEF Without
    <3>3. Newest(f.entries, Found(i)) /\ f.entries \subseteq Entry
      <4>1. f \in File
        BY <2>2, VersionFilesAreFiles
      <4>2. f.entries \subseteq Entry
        BY <4>1, FileBounds
      <4> HIDE DEF Found
      <4> QED BY <3>1, <3>2, <4>2 DEF Answers
    <3> HIDE DEF Found
    <3> QED BY <3>3 DEF Newest, NullIsNoTable
  <2> QED BY <2>2, <2>4, <2>5
<1> HIDE DEF Found, hits
<1>7. CASE hits = {}
  <2>1. Without(Contents(v), k)
    BY <1>6, <1>7 DEF Without
  <2> QED BY <1>1, <1>2, <1>7, <2>1 DEF Answers, ikey
<1>8. CASE hits # {}
  <2>1. hits \in SUBSET (1 .. Len(probes)) /\ 1 \in Int /\ Len(probes) \in Int
    BY <1>4 DEF hits
  <2>2. PICK i \in hits : \A j \in hits : i <= j
    BY ONLY <1>8, <2>1, LeastIndex
  <2>3. FirstOf(hits) = Found(i)
    <3> DEFINE m == CHOOSE a \in hits : \A j \in hits : a <= j
    <3>1. m \in hits /\ \A j \in hits : m <= j
      BY <2>2
    <3> HIDE DEF m
    <3>2. m \in hits /\ i \in hits /\ m <= i /\ i <= m
      BY <2>2, <3>1
    <3>3. m = i
      BY <2>1, <3>2
    <3>4. FirstOf(hits) = Found(m)
      BY <1>8 DEF m
    <3> QED BY <3>3, <3>4
  <2> DEFINE e == Found(i)
             F == probes[i].file.entries
  <2>4. i \in DOMAIN probes /\ F \subseteq Contents(v) /\ Newest(F, e) /\ e.key = k
    BY <1>5, <2>2 DEF hits, Answers
  <2> HIDE DEF e
  <2>5. ASSUME NEW o \in Contents(v), o.key = k PROVE o.seq <= e.seq
    <3>1. PICK j \in hits : o \in probes[j].file.entries
      BY <1>6, <2>5
    <3>2. i <= j /\ j \in DOMAIN probes /\ i \in Int /\ j \in Int
      BY <2>1, <2>2, <3>1 DEF hits
    <3>3. CASE i = j
      BY <2>4, <2>5, <3>1, <3>3 DEF Newest
    <3>4. CASE i < j
      <4>1. Newer(F, probes[j].file.entries)
        BY <1>3, <2>4, <3>2, <3>4 DEF NewestDataFirst
      <4>2. e.seq > o.seq
        BY <2>4, <2>5, <3>1, <4>1 DEF Newest, Newer
      <4>3. e.seq \in Nat /\ o.seq \in Nat
        BY <2>4, ContentsAreEntries DEF Newest
      <4> QED BY <4>2, <4>3
    <3> QED BY <3>2, <3>3, <3>4
  <2>6. Newest(Contents(v), e)
    BY <2>4, <2>5 DEF Newest
  <2> QED BY <1>1, <1>2, <2>3, <2>4, <2>6 DEF Answers, ikey, e
<1> QED BY <1>7, <1>8

\* DBImpl::Get: the memtable, the one being flushed and the tables give the
\* newest entry that the database has of the key.
LEMMA LookupAnswers ==
  ASSUME NullIsNoTable, LevelsInv, EntriesInv, NewerInv, LatestInv, NEW k \in Keys
  PROVE  Answers(InMemory(mem, imm) \cup Contents(version), k, Lookup(k, LastSequence))
<1> DEFINE s == LastSequence
           ikey == LookupKey(k, s)
           C == Contents(version)
           N == MemEntries(imm)
           y == VersionGet(version, ikey).entry
           B(inImm) == IF inImm # NULL THEN inImm ELSE y
           A(inMem) == IF inMem # NULL THEN inMem
                       ELSE With(SaveValue(N, ikey), LAMBDA inImm : IF inImm # NULL THEN inImm ELSE y)
           a == SaveValue(mem, ikey)
           b == SaveValue(N, ikey)
           x == Lookup(k, s)
<1>1. x = A(a)
  <2>1. x = CHOOSE r \in {A(z) : z \in {a}} : TRUE
    BY DEF Lookup, With
  <2> HIDE DEF A, a
  <2> QED BY <2>1
<1>2. With(b, LAMBDA inImm : IF inImm # NULL THEN inImm ELSE y) = B(b)
  <2>1. With(b, LAMBDA inImm : IF inImm # NULL THEN inImm ELSE y)
          = CHOOSE r \in {B(z) : z \in {b}} : TRUE
    BY DEF With
  <2> HIDE DEF B, b, y
  <2> QED BY <2>1
<1>3. x = IF a # NULL THEN a ELSE B(b)
  <2> HIDE DEF a, x
  <2> QED BY <1>1, <1>2
<1>4. k \in Int /\ s \in Nat /\ s = Len(history)
  BY LSMAssumption DEF LastSequence, LevelsInv, ClientsInv
<1>5. Version(version) /\ LevelsAreNewer(version) /\ Level0IsNewer(version)
  BY DEF LevelsInv, VersionInv, NewerInv, LatestInv
<1>6. /\ mem \in SUBSET Entry /\ IsFiniteSet(mem) /\ N \in SUBSET Entry /\ IsFiniteSet(N)
      /\ C \in SUBSET Entry
  BY <1>5, ContentsAreEntries, FS_EmptySet DEF LevelsInv, ClientsInv, MemEntries
<1>7. /\ \A e \in mem \cup N \cup C : e.seq <= s
      /\ Later(mem, N) /\ Later(mem, C) /\ Later(N, C)
  BY <1>4 DEF EntriesInv, AgesInv
<1>8. InMemory(mem, imm) = mem \cup N
  BY DEF InMemory
<1>9. Unique(mem) /\ Unique(N) /\ Unique(C)
  <2>1. Unique(Written(history))
    BY WrittenAreEntries DEF LevelsInv, ClientsInv
  <2>2. mem \cup N \cup C \subseteq Written(history)
    BY <1>8 DEF LatestInv
  <2> HIDE DEF N, C
  <2> QED BY <2>1, <2>2 DEF Unique
<1> HIDE DEF N, C, x, B
<1>10. Answers(mem, k, a)
  BY <1>4, <1>6, <1>7, <1>9, SaveValueAnswers
<1>11. Answers(N, k, b)
  BY <1>4, <1>6, <1>7, <1>9, SaveValueAnswers
<1>12. Answers(C, k, y)
  <2>1. Unique(Contents(version)) /\ \A e \in Contents(version) : e.seq <= s
    BY <1>7, <1>9 DEF C
  <2> QED BY <1>4, <1>5, <2>1, VersionGetAnswers DEF C
<1> HIDE DEF a, b, y, s
<1>13. Answers(N \cup C, k, B(b))
  <2>1. Answers(N \cup C, k, IF b # NULL THEN b ELSE y)
    BY <1>6, <1>7, <1>11, <1>12, FirstAnswer
  <2> QED BY <2>1 DEF B
<1>14. N \cup C \in SUBSET Entry /\ Later(mem, N \cup C)
  BY <1>6, <1>7 DEF Later
<1> DEFINE z == B(b)
           T == N \cup C
<1>15. Answers(mem \cup T, k, IF a # NULL THEN a ELSE z)
  <2>1. Answers(T, k, z) /\ T \in SUBSET Entry /\ Later(mem, T)
    BY <1>13, <1>14
  <2> HIDE DEF z, T
  <2> QED BY <1>6, <1>10, <2>1, FirstAnswer
<1>16. InMemory(mem, imm) \cup C = mem \cup T
  BY <1>8
<1>17. x = IF a # NULL THEN a ELSE z
  BY <1>3
<1> HIDE DEF z, T
<1>18. Answers(InMemory(mem, imm) \cup C, k, x)
  BY <1>15, <1>16, <1>17
<1> QED BY <1>18 DEF C, x, s

\* What a reader makes of an entry: a deletion and no entry are no value.
ValueOf(e) == IF e = NULL THEN NULL ELSE IF e.type = kTypeDeletion THEN NULL ELSE e.seq

\* A read gives the value of the last write of the key.
ReadsHistory ==
  \A k \in Keys : \E e : Answers(Written(history), k, e) /\ GetValue(k, LastSequence) = ValueOf(e)

\* What the database has forgotten are older entries, and deletions of keys
\* that it has no entry of, so its answer stands for all that was written.
LEMMA ReadsTheHistory ==
  ASSUME NullIsNoTable, LevelsInv, EntriesInv, NewerInv, LatestInv
  PROVE  ReadsHistory
<1> DEFINE S == Written(history)
           T == InMemory(mem, imm) \cup Contents(version)
<1>1. T \subseteq S /\ Retains(S, T)
  BY DEF LatestInv
<1>2. S \in SUBSET Entry /\ Unique(S) /\ IsFiniteSet(S)
  <2>1. history \in Seq([key : Keys, type : {kTypeDeletion, kTypeValue}]) /\ Len(history) <= MaxWrites
    BY DEF LevelsInv, ClientsInv
  <2>2. S \subseteq Entry /\ Unique(S)
    BY <2>1, WrittenAreEntries
  <2>3. IsFiniteSet(S)
    <3> DEFINE D == DOMAIN history
               f == [i \in D |-> InternalKey(history[i].key, i, history[i].type)]
    <3>1. D = 1 .. Len(history) /\ Len(history) \in Nat
      BY <2>1
    <3>2. IsFiniteSet(D)
      BY <3>1, FS_Interval
    <3>3. f \in Surjection(D, S)
      <4>1. S = {InternalKey(history[i].key, i, history[i].type) : i \in D}
        BY DEF Written
      <4> HIDE DEF S, D
      <4> QED BY <4>1, Zenon DEF Surjection
    <3> HIDE DEF D, f, S
    <3> QED BY <3>2, <3>3, FS_Surjection
  <2> QED BY <2>2, <2>3
<1> HIDE DEF S
<1> SUFFICES ASSUME NEW k \in Keys
             PROVE  \E e : Answers(S, k, e) /\ GetValue(k, LastSequence) = ValueOf(e)
  BY DEF ReadsHistory, S
<1> DEFINE x == Lookup(k, LastSequence)
<1>3. GetValue(k, LastSequence) = ValueOf(x)
  <2> DEFINE V(e) == IF e = NULL THEN NULL ELSE IF e.type = kTypeDeletion THEN NULL ELSE e.seq
  <2>1. GetValue(k, LastSequence) = CHOOSE r \in {V(e) : e \in {x}} : TRUE
    BY DEF GetValue, With
  <2>2. V(x) = ValueOf(x)
    BY DEF ValueOf
  <2> HIDE DEF V, x
  <2> QED BY <2>1, <2>2
<1>4. Answers(T, k, x)
  BY LookupAnswers
<1> HIDE DEF T, x
<1>5. CASE Without(S, k)
  <2>1. x = NULL /\ Answers(S, k, NULL)
    BY <1>1, <1>4, <1>5 DEF Answers, Newest, Without
  <2> QED BY <1>3, <2>1
<1>6. CASE ~Without(S, k)
  <2>1. PICK e : Newest(S, e) /\ e.key = k
    BY <1>2, <1>6, NewestExists
  <2>2. Answers(S, k, e) /\ e \in S /\ e.seq \in Nat
    BY <1>2, <2>1, EntriesAreKeys DEF Answers, Newest
  <2>3. CASE e \in T
    <3>1. ~Without(T, k)
      BY <2>1, <2>3 DEF Without
    <3>2. Newest(T, x) /\ x.key = k
      BY <1>4, <3>1 DEF Answers
    <3>3. x \in S /\ x.seq \in Nat
      BY <1>1, <1>2, <3>2, EntriesAreKeys DEF Newest
    <3>4. x.seq <= e.seq /\ e.seq <= x.seq
      BY <2>1, <2>3, <3>2, <3>3 DEF Newest
    <3>5. x = e
      BY <1>2, <2>2, <3>3, <3>4 DEF Unique
    <3> QED BY <1>3, <2>2, <3>5
  <2>4. CASE e \notin T
    <3>1. e.type = kTypeDeletion /\ Without(T, k)
      BY <1>1, <2>1, <2>4 DEF Retains, Newest
    <3>2. x = NULL
      BY <1>4, <3>1 DEF Answers, Newest, Without
    <3>3. e # NULL
      BY <1>2, <2>2 DEF NullIsNoTable
    <3>4. ValueOf(e) = ValueOf(x)
      BY <3>1, <3>2, <3>3 DEF ValueOf
    <3> QED BY <1>3, <2>2, <3>4
  <2> QED BY <2>3, <2>4
<1> QED BY <1>5, <1>6

\* There is one answer.
LEMMA AnswersAgree ==
  ASSUME NullIsNoTable, NEW S \in SUBSET Entry, Unique(S), NEW k,
         NEW x, Answers(S, k, x), NEW y, Answers(S, k, y)
  PROVE  x = y
<1>1. CASE Without(S, k)
  BY <1>1 DEF Answers, Newest, Without
<1>2. CASE ~Without(S, k)
  <2>1. /\ x \in S /\ y \in S /\ x.seq \in Nat /\ y.seq \in Nat
        /\ x.seq <= y.seq /\ y.seq <= x.seq
    BY <1>2, EntriesAreKeys DEF Answers, Newest
  <2>2. x.seq = y.seq
    BY <2>1
  <2> QED BY <2>1, <2>2 DEF Unique
<1> QED BY <1>1, <1>2

\* A new entry is the answer for its key, and leaves the other answers.
LEMMA AnswersAfterWrite ==
  ASSUME NullIsNoTable, NEW S \in SUBSET Entry, NEW e \in Entry,
         \A o \in S : o.seq < e.seq,
         NEW k, NEW x, Answers(S \cup {e}, k, x)
  PROVE  (k = e.key => x = e) /\ (k # e.key => Answers(S, k, x))
<1>1. ASSUME k = e.key PROVE x = e
  <2>1. ~Without(S \cup {e}, k)
    BY <1>1 DEF Without
  <2>2. x \in S \cup {e} /\ e.seq <= x.seq
    BY <1>1, <2>1 DEF Answers, Newest
  <2>3. \A o \in S : o.seq \in Nat
    BY EntriesAreKeys
  <2>4. e.seq \in Nat
    BY EntriesAreKeys
  <2> QED BY <2>2, <2>3, <2>4
<1>2. ASSUME k # e.key PROVE Answers(S, k, x)
  BY <1>2 DEF Answers, Newest, Without
<1> QED BY <1>1, <1>2

\* DBImpl::Write is the Put or Delete of the map: what is read of its key is what
\* it wrote, and what is read of the others stays.
LEMMA WriteChangesOneKey ==
  ASSUME NullIsNoTable, LevelsInv, ReadsHistory, ReadsHistory', Write
  PROVE  \E op \in [key : Keys, type : {kTypeDeletion, kTypeValue}] :
           /\ history' = Append(history, op)
           /\ \A o \in Keys : GetValue(o, LastSequence)'
                = IF o # op.key THEN GetValue(o, LastSequence)
                  ELSE IF op.type = kTypeDeletion THEN NULL ELSE Len(history) + 1
<1>1. PICK script \in Scripts : /\ LastSequence < MaxWrites
                                /\ history' = Append(history, script[LastSequence + 1])
  BY DEF Write
<1> DEFINE op == script[LastSequence + 1]
           e == InternalKey(op.key, LastSequence + 1, op.type)
           n == Len(history)
           S == Written(history)
           T == [key : Keys, type : {kTypeDeletion, kTypeValue}]
<1>2. history \in Seq(T) /\ n \in Nat /\ n <= MaxWrites
  BY DEF LevelsInv, ClientsInv
<1>3. LastSequence = n /\ n + 1 \in 1 .. MaxWrites /\ op \in T
  <2>1. LastSequence = n /\ LastSequence + 1 \in 1 .. MaxWrites
    BY <1>1, <1>2, LSMAssumption DEF LastSequence
  <2> QED BY <2>1, LSMAssumption
<1>4. e \in Entry /\ e.key = op.key /\ e.seq = n + 1 /\ e.type = op.type
  <2>1. e = InternalKey(op.key, n + 1, op.type)
    BY <1>3
  <2> HIDE DEF op, e, n
  <2> QED BY <1>3, <2>1 DEF InternalKey, Entry
<1>5. Written(history') = S \cup {e}
  <2>1. /\ DOMAIN history' = DOMAIN history \cup {n + 1} /\ history'[n + 1] = op
        /\ \A i \in DOMAIN history : history'[i] = history[i]
    <3>1. history' = Append(history, op)
      BY <1>1
    <3> HIDE DEF op, T
    <3> QED BY <1>2, <1>3, <3>1
  <2>2. e = InternalKey(op.key, n + 1, op.type)
    BY <1>3
  <2> HIDE DEF e, op
  <2> QED BY <2>1, <2>2 DEF Written
<1>6. S \in SUBSET Entry /\ Unique(S) /\ \A o \in S : o.seq < e.seq
  <2>1. S \subseteq Entry /\ Unique(S) /\ \A o \in S : o.seq \in DOMAIN history
    BY <1>2, WrittenAreEntries
  <2>2. \A i \in DOMAIN history : i < n + 1
    BY <1>2
  <2> HIDE DEF e, S, n
  <2> QED BY <1>4, <2>1, <2>2
<1> HIDE DEF e, S, n, op
<1>7. ASSUME NEW o \in Keys
      PROVE  GetValue(o, LastSequence)' = IF o = e.key THEN ValueOf(e) ELSE GetValue(o, LastSequence)
  <2>1. PICK x : Answers(S, o, x) /\ GetValue(o, LastSequence) = ValueOf(x)
    BY DEF ReadsHistory, S
  <2>2. PICK y : Answers(S \cup {e}, o, y) /\ GetValue(o, LastSequence)' = ValueOf(y)
    BY <1>5 DEF ReadsHistory
  <2>3. CASE o = e.key
    <3>1. y = e
      BY <1>4, <1>6, <2>2, <2>3, AnswersAfterWrite
    <3> QED BY <2>2, <2>3, <3>1
  <2>4. CASE o # e.key
    <3>1. Answers(S, o, y)
      BY <1>4, <1>6, <2>2, <2>4, AnswersAfterWrite
    <3>2. x = y
      BY <1>6, <2>1, <3>1, AnswersAgree
    <3> QED BY <2>1, <2>2, <2>4, <3>2
  <2> QED BY <2>3, <2>4
<1>8. ValueOf(e) = IF op.type = kTypeDeletion THEN NULL ELSE n + 1
  <2>1. e # NULL
    BY <1>4 DEF NullIsNoTable
  <2> QED BY <1>4, <2>1 DEF ValueOf
<1>9. history' = Append(history, op)
  BY <1>1 DEF op
<1>10. \A o \in Keys : GetValue(o, LastSequence)'
         = IF o # op.key THEN GetValue(o, LastSequence)
           ELSE IF op.type = kTypeDeletion THEN NULL ELSE n + 1
  BY <1>4, <1>7, <1>8
<1> QED BY <1>3, <1>9, <1>10 DEF n

\* No flush, no merge, no move and no read changes what is read.
LEMMA OthersChangeNothing ==
  ASSUME NullIsNoTable, LevelsInv, ReadsHistory, ReadsHistory', UNCHANGED history, NEW k \in Keys
  PROVE  GetValue(k, LastSequence)' = GetValue(k, LastSequence)
<1>1. PICK x : Answers(Written(history), k, x) /\ GetValue(k, LastSequence) = ValueOf(x)
  BY DEF ReadsHistory
<1>2. PICK y : Answers(Written(history), k, y) /\ GetValue(k, LastSequence)' = ValueOf(y)
  BY DEF ReadsHistory
<1>3. Written(history) \subseteq Entry /\ Unique(Written(history))
  BY WrittenAreEntries DEF LevelsInv, ClientsInv
<1>4. x = y
  <2> DEFINE S == Written(history)
  <2>1. S \in SUBSET Entry /\ Unique(S) /\ Answers(S, k, x) /\ Answers(S, k, y)
    BY <1>1, <1>2, <1>3
  <2> HIDE DEF S
  <2> QED BY <2>1, AnswersAgree
<1> QED BY <1>1, <1>2, <1>4

\* Only Write writes.
LEMMA HistoryIsOfWrites == [Next]_vars /\ ~Write => UNCHANGED history
BY DEF Next, vars, MakeRoomForWrite, GetSnapshot, ReleaseSnapshot, Get, RecordReadSample,
       CompactRangeCall, ForceMemTable, TEST_CompactRange, BackgroundThread, CompactMemTable,
       BackgroundManual, BackgroundAutomatic, InstallCompactionResults

\* A step of the tree is a step of the map, or leaves it as it is.
LEMMA StepOfTheMap ==
  ASSUME NullIsNoTable, LevelsInv, NewerInv, NewerInv', ReadsHistory, ReadsHistory', [Next]_vars
  PROVE  [KV!Next]_KV!vars
<1> DEFINE d == [k \in Keys |-> GetValue(k, LastSequence)]
           t == [s \in snapshots |-> [k \in Keys |-> GetValue(k, s)]]
<1>1. t' = t
  <2>1. snapshots = {} /\ snapshots' = {}
    BY DEF NewerInv
  <2>2. t = [s \in {} |-> 0]
    BY <2>1
  <2>3. t' = [s \in {} |-> 0]
    BY <2>1
  <2> QED BY <2>2, <2>3
<1>2. d' = [k \in Keys |-> GetValue(k, LastSequence)']
  OBVIOUS
<1>3. CASE Write
  <2>1. PICK op \in [key : Keys, type : {kTypeDeletion, kTypeValue}] :
          /\ history' = Append(history, op)
          /\ \A o \in Keys : GetValue(o, LastSequence)'
               = IF o # op.key THEN GetValue(o, LastSequence)
                 ELSE IF op.type = kTypeDeletion THEN NULL ELSE Len(history) + 1
    BY <1>3, WriteChangesOneKey
  <2> DEFINE v == IF op.type = kTypeDeletion THEN NULL ELSE Len(history) + 1
  <2>2. d' = [d EXCEPT ![op.key] = v]
    <3>1. \A o \in Keys : d[o] = GetValue(o, LastSequence)
      OBVIOUS
    <3>2. DOMAIN d = Keys
      OBVIOUS
    <3> HIDE DEF v
    <3>3. \A o \in Keys : GetValue(o, LastSequence)' = IF o = op.key THEN v ELSE GetValue(o, LastSequence)
      BY <2>1 DEF v
    <3> QED BY <1>2, <3>1, <3>2, <3>3
  <2>3. op = [key |-> op.key, type |-> op.type] /\ op.key \in Keys
    OBVIOUS
  <2> HIDE DEF d, t
  <2>4. CASE op.type = kTypeDeletion
    <3>1. /\ history' = Append(history, [key |-> op.key, type |-> kTypeDeletion])
          /\ d' = [d EXCEPT ![op.key] = NULL] /\ UNCHANGED t
      BY <1>1, <2>1, <2>2, <2>3, <2>4
    <3>2. KV!Delete(op.key)
      BY <3>1 DEF KV!Delete, d, t
    <3> QED BY <2>3, <3>2 DEF KV!Next
  <2>5. CASE op.type # kTypeDeletion
    <3>1. op.type = kTypeValue
      BY <2>5
    <3>2. /\ history' = Append(history, [key |-> op.key, type |-> kTypeValue])
          /\ d' = [d EXCEPT ![op.key] = Len(history) + 1] /\ UNCHANGED t
      BY <1>1, <2>1, <2>2, <2>3, <2>5, <3>1
    <3>3. KV!Put(op.key)
      BY <3>2 DEF KV!Put, d, t
    <3> QED BY <2>3, <3>3 DEF KV!Next
  <2> QED BY <2>4, <2>5
<1>4. CASE ~Write
  <2>1. UNCHANGED history
    BY <1>4, HistoryIsOfWrites
  <2>2. \A k \in Keys : GetValue(k, LastSequence)' = GetValue(k, LastSequence)
    BY <2>1, OthersChangeNothing
  <2>3. d' = d
    BY <1>2, <2>2
  <2> HIDE DEF d, t
  <2>4. UNCHANGED <<history, d, t>>
    BY <1>1, <2>1, <2>3
  <2> QED BY <2>4 DEF KV!vars, d, t
<1> QED BY <1>3, <1>4

\* An empty tree is the empty map.
LEMMA InitOfTheMap ==
  ASSUME NullIsNoTable, Init, ReadsHistory
  PROVE  KV!Init
<1>1. history = <<>> /\ Written(history) = {} /\ snapshots = {}
  BY DEF Init, Written
<1>2. ASSUME NEW k \in Keys PROVE GetValue(k, LastSequence) = NULL
  <2>1. PICK e : Answers(Written(history), k, e) /\ GetValue(k, LastSequence) = ValueOf(e)
    BY DEF ReadsHistory
  <2>2. e = NULL
    BY <1>1, <2>1 DEF Answers, Newest
  <2> QED BY <2>1, <2>2 DEF ValueOf
<1> QED BY <1>1, <1>2 DEF KV!Init

\* What db.h promises: the tree is a map from keys to values that the writes made
\* (history) change one by one.  Whatever flushes, merges and moves fall between
\* them, a read gives the value of the last one of its key, as long as no snapshot is
\* held and no one calls CompactRange (with either the code may answer from an
\* older entry, see the runs lsm_splitkey and lsm_gap).
THEOREM TreeImplementsMap ==
  ASSUME NullIsNoTable, MaxRangeCalls = 0, MaxSnapshots = 0
  PROVE  Spec => ImplementsKVStore
<1>1. Init => LevelsInv /\ EntriesInv /\ NewerInv /\ LatestInv
  BY LevelsInvInit, EntriesInvInit, NewerInvInit, LatestInvInit
<1>2. LevelsInv /\ EntriesInv /\ NewerInv /\ LatestInv /\ [Next]_vars
        => LevelsInv' /\ EntriesInv' /\ NewerInv' /\ LatestInv'
  BY LevelsStep, EntriesStep, NewerStep, LatestStep
<1>3. LevelsInv /\ EntriesInv /\ NewerInv /\ LatestInv => ReadsHistory
  BY ReadsTheHistory
<1>4. Init /\ ReadsHistory => KV!Init
  BY InitOfTheMap
<1>5. LevelsInv /\ NewerInv /\ NewerInv' /\ ReadsHistory /\ ReadsHistory' /\ [Next]_vars
        => [KV!Next]_KV!vars
  BY StepOfTheMap
<1> QED BY <1>1, <1>2, <1>3, <1>4, <1>5, PTL DEF Spec, ImplementsKVStore, KV!Spec

-----------------------------------------------------------------------------
(* Approximate sizes                                                       *)

\* s adds up the sizes of X[b + 1] to X[n].
SumIs(b, n, X, s) ==
  s = [i \in b .. n |-> IF i = b THEN 0 ELSE s[i - 1] + Cardinality(X[i])]

\* X[b + 1] to X[n] are finite and share nothing.
Separate(b, n, X) ==
  /\ \A i \in b + 1 .. n : IsFiniteSet(X[i])
  /\ \A i, j \in b + 1 .. n : i # j => X[i] \cap X[j] = {}

UpTo(b, n, X) == UNION {X[i] : i \in b + 1 .. n}

\* The one sum that a recursion from b to n finds is the size of the union.
Sums(b, n, X) ==
  /\ \E s : SumIs(b, n, X, s)
  /\ \A s : SumIs(b, n, X, s) => s[n] = Cardinality(UpTo(b, n, X))
  /\ IsFiniteSet(UpTo(b, n, X))

\* Sets that share nothing have together as many elements as their sizes add
\* up to.
LEMMA SizesAddUp ==
  ASSUME NEW b \in Int, NEW n \in Int, b <= n, NEW X, Separate(b, n, X)
  PROVE  Sums(b, n, X)
<1> USE DEF Separate
<1> DEFINE U(k) == UNION {X[i] : i \in b + 1 .. k}
           G == [i \in b + 1 .. n |-> [x \in Nat |-> x + Cardinality(X[i])]]
<1>1. \A i \in b + 1 .. n : Cardinality(X[i]) \in Nat
  BY FS_CardinalityType
<1>2. PICK f \in [b .. n -> Nat] : f[b] = 0 /\ \A i \in b + 1 .. n : f[i] = G[i][f[i - 1]]
  <2>1. G \in [b + 1 .. n -> [Nat -> Nat]]
    BY <1>1
  <2>2. 0 \in Nat
    OBVIOUS
  <2> HIDE DEF G
  <2>3. Recursions(b, n, Nat, 0, G) # {}
    BY <2>1, <2>2, RecursionExists
  <2> QED BY <2>3 DEF Recursions
<1>3. SumIs(b, n, X, f)
  <2>1. ASSUME NEW i \in b .. n PROVE f[i] = IF i = b THEN 0 ELSE f[i - 1] + Cardinality(X[i])
    <3>1. CASE i = b
      BY <1>2, <3>1
    <3>2. CASE i # b
      <4>1. i \in b + 1 .. n /\ f[i - 1] \in Nat
        BY <1>2, <3>2
      <4> QED BY <1>2, <3>2, <4>1
    <3> QED BY <3>1, <3>2
  <2>2. f = [i \in b .. n |-> f[i]]
    BY <1>2
  <2> QED BY <2>1, <2>2, Zenon DEF SumIs
<1>4. ASSUME NEW s, SumIs(b, n, X, s)
      PROVE  s[n] = Cardinality(U(n)) /\ IsFiniteSet(U(n))
  <2>1. \A i \in b .. n : s[i] = IF i = b THEN 0 ELSE s[i - 1] + Cardinality(X[i])
    BY <1>4 DEF SumIs
  <2>2. s[b] = 0 /\ \A i \in b + 1 .. n : s[i] = s[i - 1] + Cardinality(X[i])
    BY <2>1
  <2> DEFINE I == {k \in Int : s[k] = Cardinality(U(k)) /\ IsFiniteSet(U(k))}
  <2>3. b \in I
    <3>1. U(b) = {}
      OBVIOUS
    <3> HIDE DEF U
    <3> QED BY <2>2, <3>1, FS_EmptySet
  <2>4. ASSUME NEW k \in b + 1 .. n, k - 1 \in I PROVE k \in I
    <3>1. U(k) = U(k - 1) \cup X[k]
      <4>1. b + 1 .. k = (b + 1 .. k - 1) \cup {k}
        OBVIOUS
      <4> QED BY <4>1
    <3>2. U(k - 1) \cap X[k] = {}
      <4>1. \A i \in b + 1 .. k - 1 : X[i] \cap X[k] = {}
        OBVIOUS
      <4> QED BY <4>1
    <3> HIDE DEF U
    <3>3. IsFiniteSet(U(k - 1)) /\ s[k - 1] = Cardinality(U(k - 1)) /\ IsFiniteSet(X[k])
      BY <2>4
    <3>4. IsFiniteSet(U(k)) /\ Cardinality(U(k)) = Cardinality(U(k - 1)) + Cardinality(X[k]) - Cardinality({})
      <4>1. /\ IsFiniteSet(U(k - 1) \cup X[k])
            /\ Cardinality(U(k - 1) \cup X[k])
                 = Cardinality(U(k - 1)) + Cardinality(X[k]) - Cardinality(U(k - 1) \cap X[k])
        BY ONLY <3>3, FS_Union
      <4> QED BY ONLY <3>1, <3>2, <4>1
    <3>5. Cardinality({}) = 0 /\ Cardinality(U(k - 1)) \in Nat /\ Cardinality(X[k]) \in Nat
      BY <3>3, FS_EmptySet, FS_CardinalityType
    <3>6. s[k] = s[k - 1] + Cardinality(X[k]) /\ k \in Int
      <4>1. k \in b + 1 .. n /\ k \in Int
        OBVIOUS
      <4> QED BY ONLY <2>2, <4>1
    <3> QED BY <3>3, <3>4, <3>5, <3>6
  <2>5. b .. n \subseteq I
    <3> HIDE DEF I
    <3> QED BY <2>3, <2>4, AllIndices
  <2>6. n \in I
    <3> HIDE DEF I
    <3> QED BY <2>5
  <2> QED BY <2>6
<1>5. U(n) = UpTo(b, n, X)
  BY DEF UpTo
<1> HIDE DEF U
<1> QED BY <1>3, <1>4, <1>5 DEF Sums

Below(f, ikey) == {e \in f.entries : Less(e, ikey)}

\* What ApproximateOffsetOf counts of a file.
Counted(f, ikey) ==
  IF LessEq(f.largest, ikey) THEN f.entries
  ELSE IF Less(ikey, f.smallest) THEN {}
  ELSE EntriesPassed(f, ikey)

OffsetIn(f, ikey) ==
  IF LessEq(f.largest, ikey) THEN FileSize(f)
  ELSE IF Less(ikey, f.smallest) THEN 0
  ELSE Cardinality(EntriesPassed(f, ikey))

OffsetsOf(S, ikey) ==
  LET list == Sorted(S, NewestFirst)
      sum[i \in 0 .. Len(list)] ==
        IF i = 0 THEN 0 ELSE sum[i - 1] + OffsetIn(list[i], ikey)
  IN sum[Len(list)]

FilesBefore(v, level, ikey) ==
  IF level = 0 THEN FilesOf(v[0])
  ELSE LET after == {i \in DOMAIN v[level] : Less(ikey, v[level][i].smallest)}
       IN {v[level][i] : i \in {j \in DOMAIN v[level] : \A a \in after : j < a}}

\* An index entry lies between the block it closes and the next one.
LEMMA IndexBetweenBlocks ==
  ASSUME NEW a \in Entry, NEW b \in Entry, Less(a, b)
  PROVE  IndexKey(a, b) \in IKey /\ LessEq(a, IndexKey(a, b)) /\ Less(IndexKey(a, b), b)
<1> DEFINE u == ShortestSeparator(a.key, b.key)
           m == kMaxSequenceNumber
<1>1. /\ a \in IKey /\ b \in IKey /\ a.key \in Keys /\ b.key \in Keys
      /\ a.key \in Int /\ b.key \in Int
  BY EntriesAreKeys
<1>2. m \in Nat
  BY SMT DEF kMaxSequenceNumber
<1> HIDE DEF m
<1>3. CASE a.key < b.key /\ a.key < u
  <2> DEFINE s == [key |-> u, seq |-> m, type |-> kValueTypeForSeek]
  <2>1. u \in Int /\ u < b.key
    BY <1>1, <1>3, LSMAssumption
  <2>2. IndexKey(a, b) = s
    BY <1>3 DEF IndexKey, InternalKey, m
  <2>3. s \in IKey /\ s.key = u
    BY <1>2, <2>1 DEF IKey, kValueTypeForSeek
  <2> HIDE DEF s, u
  <2>4. Less(a, s) /\ Less(s, b)
    BY <1>1, <1>3, <2>1, <2>3, KeyOrder
  <2> QED BY <2>2, <2>3, <2>4 DEF LessEq
<1>4. CASE ~(a.key < b.key /\ a.key < u)
  BY <1>1, <1>4 DEF IndexKey, LessEq
<1> QED BY <1>3, <1>4

\* The entries of a file in their order, and the positions of its index entries.
KeysOf(f) == Sorted(f.entries, Less)
BlockEnds(f) == {i \in 1 .. Len(KeysOf(f)) - 1 : \E j \in 1 .. i : i = j * BlockEntries}
IndexAt(f, i) == IndexKey(KeysOf(f)[i], KeysOf(f)[i + 1])

LEMMA KeysInOrder ==
  ASSUME NEW f \in File
  PROVE  /\ DOMAIN KeysOf(f) = 1 .. Len(KeysOf(f)) /\ Len(KeysOf(f)) \in Nat
         /\ \A i \in DOMAIN KeysOf(f) : KeysOf(f)[i] \in f.entries /\ KeysOf(f)[i] \in Entry
                                        /\ KeysOf(f)[i] \in IKey
         /\ \A e \in f.entries : \E i \in DOMAIN KeysOf(f) : KeysOf(f)[i] = e
         /\ \A i, j \in DOMAIN KeysOf(f) : i < j => Less(KeysOf(f)[i], KeysOf(f)[j])
         /\ \A i, j \in DOMAIN KeysOf(f) : i <= j => LessEq(KeysOf(f)[i], KeysOf(f)[j])
<1> DEFINE S == f.entries
           R == {p \in S \X S : Less(p[1], p[2])}
<1>1. IsFiniteSet(S) /\ S \subseteq Entry /\ S \subseteq IKey
  BY FileBounds, EntriesAreKeys DEF File
<1>2. \A a, b \in S : <<a, b>> \in R <=> Less(a, b)
  OBVIOUS
<1>3. Orders(R, S)
  <2> HIDE DEF R, S
  <2>1. R \subseteq S \X S
    BY DEF R
  <2> QED BY <1>1, <1>2, <2>1, KeyOrder DEF Orders
<1>4. Enumerates(KeysOf(f), S, R)
  BY <1>1, <1>3, SortedEntries DEF KeysOf
<1> HIDE DEF R
<1>5. KeysOf(f) \in Seq(S)
  BY <1>4 DEF Enumerates
<1>6. DOMAIN KeysOf(f) = 1 .. Len(KeysOf(f)) /\ Len(KeysOf(f)) \in Nat
  BY <1>5
<1>7. \A i \in DOMAIN KeysOf(f) : KeysOf(f)[i] \in S /\ KeysOf(f)[i] \in Entry /\ KeysOf(f)[i] \in IKey
  BY <1>1, <1>4 DEF Enumerates
<1>8. \A i, j \in DOMAIN KeysOf(f) : i < j => Less(KeysOf(f)[i], KeysOf(f)[j])
  BY <1>2, <1>4, <1>7 DEF Enumerates
<1>9. \A i, j \in DOMAIN KeysOf(f) : i <= j => LessEq(KeysOf(f)[i], KeysOf(f)[j])
  <2>1. \A i, j \in DOMAIN KeysOf(f) : i <= j => i = j \/ i < j
    BY <1>6
  <2> QED BY <1>8, <2>1 DEF LessEq
<1> QED BY <1>4, <1>6, <1>7, <1>8, <1>9 DEF Enumerates

\* What the Seek of the index leaves behind is before the key, and more so
\* for a larger key.
LEMMA PassedIsBelow ==
  ASSUME NEW f \in File, NEW ikey \in IKey
  PROVE  /\ EntriesPassed(f, ikey) \subseteq Below(f, ikey)
         /\ \A larger \in IKey : Less(ikey, larger) =>
              EntriesPassed(f, ikey) \subseteq EntriesPassed(f, larger)
         /\ EntriesPassed(f, ikey)
              = {KeysOf(f)[i] : i \in {n \in DOMAIN KeysOf(f) :
                   \E p \in BlockEnds(f) : n <= p /\ Less(IndexAt(f, p), ikey)}}
<1> DEFINE keys == KeysOf(f)
           Behind(k) == {n \in DOMAIN keys : \E p \in BlockEnds(f) : n <= p /\ Less(IndexAt(f, p), k)}
<1>1. ASSUME NEW k PROVE EntriesPassed(f, k) = {keys[i] : i \in Behind(k)}
  <2>1. Behind(k) = {n \in DOMAIN keys : \E p \in {i \in BlockEnds(f) : Less(IndexAt(f, i), k)} : n <= p}
    OBVIOUS
  <2> QED BY <2>1 DEF EntriesPassed, KeysOf, BlockEnds, IndexAt
<1>2. BlockEnds(f) \subseteq DOMAIN keys /\ \A p \in BlockEnds(f) : p \in Nat /\ p + 1 \in DOMAIN keys
  BY KeysInOrder DEF BlockEnds
<1>3. ASSUME NEW p \in BlockEnds(f)
      PROVE  IndexAt(f, p) \in IKey /\ LessEq(keys[p], IndexAt(f, p)) /\ Less(IndexAt(f, p), keys[p + 1])
  <2>1. p \in DOMAIN keys /\ p + 1 \in DOMAIN keys /\ p < p + 1
    BY <1>2
  <2>2. keys[p] \in Entry /\ keys[p + 1] \in Entry /\ Less(keys[p], keys[p + 1])
    BY <2>1, KeysInOrder
  <2> QED BY <2>2, IndexBetweenBlocks DEF IndexAt
<1>4. ASSUME NEW i \in Behind(ikey) PROVE keys[i] \in Below(f, ikey)
  <2>1. PICK p \in BlockEnds(f) : i <= p /\ Less(IndexAt(f, p), ikey)
    OBVIOUS
  <2>2. i \in DOMAIN keys /\ p \in DOMAIN keys
    BY <1>2
  <2>3. /\ keys[i] \in f.entries /\ keys[i] \in IKey /\ keys[p] \in IKey
        /\ LessEq(keys[i], keys[p])
    BY <2>1, <2>2, KeysInOrder
  <2>4. Less(keys[p], ikey)
    BY <1>3, <2>1, <2>3, KeyOrder
  <2>5. Less(keys[i], ikey)
    BY <2>3, <2>4, KeyOrder
  <2> QED BY <2>3, <2>5 DEF Below
<1>5. ASSUME NEW larger \in IKey, Less(ikey, larger) PROVE Behind(ikey) \subseteq Behind(larger)
  <2>1. \A p \in BlockEnds(f) : Less(IndexAt(f, p), ikey) => Less(IndexAt(f, p), larger)
    BY <1>3, <1>5, KeyOrder
  <2> QED BY <2>1
<1>6. EntriesPassed(f, ikey) \subseteq Below(f, ikey)
  <2> HIDE DEF Behind, keys
  <2> QED BY <1>1, <1>4
<1>7. ASSUME NEW larger \in IKey, Less(ikey, larger)
      PROVE  EntriesPassed(f, ikey) \subseteq EntriesPassed(f, larger)
  <2>1. Behind(ikey) \subseteq Behind(larger)
    BY <1>5, <1>7
  <2> HIDE DEF Behind, keys
  <2> QED BY <1>1, <2>1
<1>8. EntriesPassed(f, ikey) = {keys[i] : i \in Behind(ikey)}
  BY <1>1
<1> HIDE DEF Behind
<1>9. \A larger \in IKey : Less(ikey, larger) => EntriesPassed(f, ikey) \subseteq EntriesPassed(f, larger)
  BY <1>7
<1> QED BY <1>6, <1>8, <1>9 DEF Behind

\* Among as many positions as a block has entries one is the end of a block.
LEMMA BlockEndNear ==
  ASSUME NEW p \in Nat \ {0}
  PROVE  \E j \in 1 .. p : p <= j * BlockEntries /\ j * BlockEntries < p + BlockEntries
<1> DEFINE B == BlockEntries
           T == {j \in Nat : p <= j * B}
<1>1. B \in Nat \ {0}
  BY LevelsAssumption
<1> HIDE DEF B
<1>2. p \in T
  <2>1. p <= p * B
    BY <1>1
  <2> QED BY <2>1
<1>3. PICK j \in T : \A i \in T : ~(<<i, j>> \in OpToRel(<, Nat))
  BY <1>2, WFMin, NatLessThanWellFounded
<1>4. \A i \in T : ~(i < j)
  BY <1>3 DEF OpToRel
<1>5. j \in Nat /\ p <= j * B /\ j <= p
  BY <1>2, <1>4
<1>6. j # 0
  BY <1>1, <1>5
<1>7. (j - 1) * B < p
  <2>1. j - 1 \in Nat /\ j - 1 < j /\ j - 1 \notin T
    BY <1>4, <1>5, <1>6
  <2>2. (j - 1) * B \in Int
    BY <1>1, <2>1
  <2> QED BY <2>1, <2>2
<1>8. j * B = (j - 1) * B + B
  BY <1>1, <1>5
<1>9. j \in 1 .. p /\ j * B < p + B
  <2>1. (j - 1) * B \in Int
    BY <1>1, <1>5
  <2> QED BY <1>1, <1>5, <1>6, <1>7, <1>8, <2>1
<1> QED BY <1>5, <1>9 DEF B

\* What it leaves out of the entries before the key is the tail of them, one
\* block's worth at most.
LEMMA PassedButForABlock ==
  ASSUME NEW f \in File, NEW ikey \in IKey, NEW e \in Below(f, ikey), e \notin EntriesPassed(f, ikey)
  PROVE  e \in LastBefore(f, ikey)
<1> DEFINE keys == KeysOf(f)
           n == Len(keys)
           B == BlockEntries
           tail == {o \in Below(f, ikey) : LessEq(e, o)}
<1>1. B \in Nat \ {0}
  BY LevelsAssumption
<1>2. DOMAIN keys = 1 .. n /\ n \in Nat
  BY KeysInOrder
<1>3. PICK p \in DOMAIN keys : keys[p] = e
  BY KeysInOrder DEF Below
<1>4. PICK j \in 1 .. p : p <= j * B /\ j * B < p + B
  BY <1>2, <1>3, BlockEndNear
<1> DEFINE m == IF j * B < n THEN j * B ELSE n
<1> HIDE DEF B
<1>5. j * B \in Nat
  BY <1>1, <1>4
<1>6. m \in Nat /\ m < p + B /\ m <= n
  BY <1>1, <1>2, <1>3, <1>4, <1>5
<1>7. ASSUME NEW o \in tail PROVE \E i \in p .. m : keys[i] = o
  <2>1. PICK i \in DOMAIN keys : keys[i] = o
    BY KeysInOrder DEF Below
  <2>2. o \in IKey /\ e \in IKey /\ Less(o, ikey) /\ LessEq(e, o)
    BY <1>3, <2>1, KeysInOrder DEF Below
  <2>3. p <= i
    <3>1. CASE i < p
      <4>1. Less(o, e)
        BY <1>3, <2>1, <3>1, KeysInOrder
      <4> QED BY <2>2, <4>1, KeyOrder
    <3> QED BY <1>2, <2>1, <3>1
  <2>4. i <= m
    <3>1. CASE j * B < n
      <4> SUFFICES ASSUME j * B < i PROVE FALSE
        BY <1>2, <1>5, <3>1
      <4> DEFINE q == j * B
      <4>1. q \in BlockEnds(f)
        <5>1. j <= q
          BY <1>1, <1>4, <1>5
        <5>2. q \in 1 .. n - 1
          BY <1>2, <1>3, <1>4, <1>5, <3>1, <5>1
        <5>3. j \in 1 .. q
          BY <1>4, <1>5, <5>1
        <5> QED BY <5>2, <5>3 DEF BlockEnds, B
      <4>2. q + 1 \in DOMAIN keys /\ q \in DOMAIN keys /\ q + 1 <= i /\ q < q + 1
        BY <1>2, <1>3, <1>4, <1>5, <2>1, <3>1
      <4> HIDE DEF q
      <4>3. ~Less(IndexAt(f, q), ikey)
        <5> SUFFICES ASSUME Less(IndexAt(f, q), ikey) PROVE FALSE
          OBVIOUS
        <5>1. p <= q
          BY <1>4 DEF q
        <5>2. keys[p] \in EntriesPassed(f, ikey)
          BY <1>3, <4>1, <5>1, PassedIsBelow
        <5> QED BY <1>3, <5>2
      <4>4. /\ keys[q] \in Entry /\ keys[q + 1] \in Entry /\ keys[q + 1] \in IKey
            /\ Less(keys[q], keys[q + 1]) /\ LessEq(keys[q + 1], o)
        BY <2>1, <4>2, KeysInOrder
      <4>5. IndexAt(f, q) \in IKey /\ Less(IndexAt(f, q), keys[q + 1])
        BY <4>4, IndexBetweenBlocks DEF IndexAt
      <4>6. Less(IndexAt(f, q), o)
        BY <2>2, <4>4, <4>5, KeyOrder
      <4>7. Less(IndexAt(f, q), ikey)
        BY <2>2, <4>5, <4>6, KeyOrder
      <4> QED BY <4>3, <4>7
    <3>2. CASE ~(j * B < n)
      BY <1>2, <2>1, <3>2
    <3> QED BY <3>1, <3>2
  <2> QED BY <1>2, <1>6, <2>1, <2>3, <2>4
<1> HIDE DEF m, n
<1>8. Cardinality(tail) <= B
  <2> DEFINE T == {keys[i] : i \in p .. m}
             at == [i \in p .. m |-> keys[i]]
  <2>1. p \in Int /\ m \in Int
    BY <1>2, <1>3, <1>6
  <2>2. IsFiniteSet(p .. m) /\ Cardinality(p .. m) <= B
    BY <1>1, <1>6, <2>1, FS_Interval
  <2>3. at \in Surjection(p .. m, T)
    <3> HIDE DEF keys
    <3> QED BY DEF Surjection
  <2> HIDE DEF at, T, keys
  <2>4. IsFiniteSet(T) /\ Cardinality(T) <= Cardinality(p .. m)
    BY <2>2, <2>3, FS_Surjection
  <2>5. tail \subseteq T
    <3> HIDE DEF tail
    <3> QED BY <1>7 DEF T
  <2> HIDE DEF tail
  <2>6. IsFiniteSet(tail) /\ Cardinality(tail) <= Cardinality(T)
    BY <2>4, <2>5, FS_Subset
  <2>7. Cardinality(tail) \in Nat /\ Cardinality(T) \in Nat /\ Cardinality(p .. m) \in Nat
    BY <2>2, <2>4, <2>6, FS_CardinalityType
  <2> QED BY <1>1, <2>2, <2>4, <2>6, <2>7
<1> QED BY <1>8 DEF LastBefore, Below, B

\* In one file ApproximateOffsetOf counts entries before the key.
LEMMA OffsetCounts ==
  ASSUME NEW f \in File, NEW ikey \in IKey, ikey \notin Entry
  PROVE  /\ OffsetIn(f, ikey) = Cardinality(Counted(f, ikey)) /\ IsFiniteSet(Counted(f, ikey))
         /\ Less(ikey, f.smallest) => Counted(f, ikey) = {}
         /\ Counted(f, ikey) \subseteq Below(f, ikey)
         /\ \A e \in Below(f, ikey) : e \in Counted(f, ikey)
              \/ (e \in LastBefore(f, ikey) /\ Less(f.smallest, ikey) /\ Less(ikey, f.largest))
<1>1. /\ f.smallest \in IKey /\ f.largest \in IKey /\ f.largest \in Entry
      /\ \A e \in f.entries : e \in IKey /\ LessEq(f.smallest, e) /\ LessEq(e, f.largest)
      /\ f.smallest \in f.entries /\ LessEq(f.smallest, f.largest)
  BY FileBounds, EntriesAreKeys DEF File
<1>2. IsFiniteSet(f.entries) /\ Below(f, ikey) \subseteq f.entries
  BY DEF File, Below
<1>3. CASE LessEq(f.largest, ikey)
  <2>1. Less(f.largest, ikey)
    BY <1>1, <1>3 DEF LessEq
  <2>2. \A e \in f.entries : Less(e, ikey)
    BY <1>1, <2>1, KeyOrder
  <2>3. Counted(f, ikey) = f.entries /\ OffsetIn(f, ikey) = Cardinality(f.entries)
    BY <1>3 DEF Counted, OffsetIn, FileSize
  <2>4. ~Less(ikey, f.smallest)
    BY <1>1, <2>2, KeyOrder
  <2> QED BY <1>2, <2>2, <2>3, <2>4 DEF Below
<1>4. CASE ~LessEq(f.largest, ikey) /\ Less(ikey, f.smallest)
  <2>1. \A e \in f.entries : ~Less(e, ikey)
    BY <1>1, <1>4, KeyOrder
  <2>2. Below(f, ikey) = {}
    BY <2>1 DEF Below
  <2>3. Counted(f, ikey) = {} /\ OffsetIn(f, ikey) = 0
    BY <1>4 DEF Counted, OffsetIn
  <2> QED BY <2>2, <2>3, FS_EmptySet
<1>5. CASE ~LessEq(f.largest, ikey) /\ ~Less(ikey, f.smallest)
  <2>1. Counted(f, ikey) = EntriesPassed(f, ikey) /\ OffsetIn(f, ikey) = Cardinality(EntriesPassed(f, ikey))
    BY <1>5 DEF Counted, OffsetIn
  <2>2. EntriesPassed(f, ikey) \subseteq Below(f, ikey)
    BY PassedIsBelow
  <2>3. IsFiniteSet(EntriesPassed(f, ikey))
    BY <1>2, <2>2, FS_Subset
  <2>4. Less(ikey, f.largest)
    BY <1>1, <1>5, KeyOrder DEF LessEq
  <2>5. ASSUME NEW e \in Below(f, ikey) PROVE Less(f.smallest, ikey)
    <3>1. e \in IKey /\ LessEq(f.smallest, e) /\ Less(e, ikey)
      BY <1>1 DEF Below
    <3> QED BY <1>1, <3>1, KeyOrder
  <2>6. ASSUME NEW e \in Below(f, ikey), e \notin EntriesPassed(f, ikey) PROVE e \in LastBefore(f, ikey)
    BY <2>6, PassedButForABlock
  <2> QED BY <1>5, <2>1, <2>2, <2>3, <2>4, <2>5, <2>6
<1> QED BY <1>3, <1>4, <1>5

\* And for a larger key it counts no fewer.
LEMMA OffsetsGrow ==
  ASSUME NEW f \in File, NEW a \in IKey, NEW b \in IKey, Less(a, b)
  PROVE  Counted(f, a) \subseteq Counted(f, b)
<1>1. /\ f.smallest \in IKey /\ f.largest \in IKey
      /\ EntriesPassed(f, a) \subseteq f.entries
  BY FileBounds, EntriesAreKeys, PassedIsBelow DEF Below
<1>2. LessEq(f.largest, a) => LessEq(f.largest, b)
  BY <1>1, KeyOrder DEF LessEq
<1>3. Less(b, f.smallest) => Less(a, f.smallest)
  BY <1>1, KeyOrder
<1>4. EntriesPassed(f, a) \subseteq EntriesPassed(f, b)
  BY PassedIsBelow
<1> QED BY <1>1, <1>2, <1>3, <1>4 DEF Counted

\* And in a set of files, added up one by one.
LEMMA OffsetsAddUp ==
  ASSUME NEW S \in SUBSET File, IsFiniteSet(S), NEW ikey \in IKey, ikey \notin Entry,
         \A f, g \in S : f # g => f.number # g.number /\ f.entries \cap g.entries = {}
  PROVE  /\ OffsetsOf(S, ikey) = Cardinality(UNION {Counted(f, ikey) : f \in S})
         /\ IsFiniteSet(UNION {Counted(f, ikey) : f \in S})
<1> DEFINE list == Sorted(S, NewestFirst)
           R == {p \in S \X S : NewestFirst(p[1], p[2])}
<1>1. Enumerates(list, S, R)
  <2>1. \A f, g \in S : <<f, g>> \in R <=> f.number > g.number
    BY DEF NewestFirst
  <2>2. \A f \in S : f.number \in Nat
    BY FileBounds
  <2>3. Orders(R, S)
    <3> HIDE DEF R
    <3> QED BY <2>1, <2>2 DEF Orders
  <2> QED BY <2>3, SortedNewest
<1>2. \A f, g \in S : <<f, g>> \in R => f # g
  <2>1. \A f, g \in S : <<f, g>> \in R <=> f.number > g.number
    BY DEF NewestFirst
  <2>2. \A f \in S : f.number \in Nat
    BY FileBounds
  <2> HIDE DEF R
  <2> QED BY <2>1, <2>2
<1> HIDE DEF list, R
<1> DEFINE n == Len(list)
           X == [i \in 1 .. n |-> Counted(list[i], ikey)]
           E(s, i) == IF i = 0 THEN 0 ELSE s[i - 1] + OffsetIn(list[i], ikey)
           Is(s) == s = [i \in 0 .. n |-> IF i = 0 THEN 0 ELSE s[i - 1] + OffsetIn(list[i], ikey)]
<1>3. n \in Nat /\ DOMAIN list = 1 .. n /\ \A i \in 1 .. n : list[i] \in S
  <2>1. list \in Seq(S)
    BY <1>1 DEF Enumerates
  <2> QED BY <2>1
<1>4. \A i \in 1 .. n : X[i] = Counted(list[i], ikey) /\ IsFiniteSet(X[i])
                        /\ OffsetIn(list[i], ikey) = Cardinality(X[i])
  <2> SUFFICES ASSUME NEW i \in 1 .. n
               PROVE  IsFiniteSet(Counted(list[i], ikey)) /\ OffsetIn(list[i], ikey) = Cardinality(Counted(list[i], ikey))
    OBVIOUS
  <2>1. list[i] \in File
    BY <1>3
  <2> QED BY <2>1, OffsetCounts
<1>5. ASSUME NEW i \in 1 .. n, NEW j \in 1 .. n, i # j PROVE X[i] \cap X[j] = {}
  <2>1. list[i] \in S /\ list[j] \in S
    BY <1>3
  <2>2. i < j \/ j < i
    BY <1>3, <1>5
  <2>3. list[i] # list[j]
    BY <1>1, <1>2, <1>3, <2>1, <2>2 DEF Enumerates
  <2>4. list[i].entries \cap list[j].entries = {}
    BY <2>1, <2>3
  <2>5. Counted(list[i], ikey) \subseteq list[i].entries /\ Counted(list[j], ikey) \subseteq list[j].entries
    <3>1. list[i] \in File /\ list[j] \in File
      BY <2>1
    <3> QED BY <3>1, OffsetCounts DEF Below
  <2> HIDE DEF X
  <2> QED BY <1>4, <2>4, <2>5
<1>6. ASSUME NEW s PROVE Is(s) <=> SumIs(0, n, X, s)
  <2>1. ASSUME NEW i \in 0 .. n
        PROVE  (IF i = 0 THEN 0 ELSE s[i - 1] + OffsetIn(list[i], ikey))
                 = (IF i = 0 THEN 0 ELSE s[i - 1] + Cardinality(X[i]))
    <3> HIDE DEF X
    <3>1. i = 0 \/ i \in 1 .. n
      BY <1>3
    <3> QED BY <1>4, <3>1
  <2> HIDE DEF X, n
  <2>2. [i \in 0 .. n |-> IF i = 0 THEN 0 ELSE s[i - 1] + OffsetIn(list[i], ikey)]
          = [i \in 0 .. n |-> IF i = 0 THEN 0 ELSE s[i - 1] + Cardinality(X[i])]
    BY <2>1, Zenon
  <2> QED BY <2>2 DEF SumIs
<1>7. OffsetsOf(S, ikey) = (CHOOSE s : Is(s))[n]
  BY DEF OffsetsOf, list
<1> HIDE DEF X, n
<1>8. Sums(0, n, X)
  <2>1. 0 \in Int /\ n \in Int /\ 0 <= n /\ Separate(0, n, X)
    BY <1>3, <1>4, <1>5 DEF Separate
  <2> QED BY ONLY <2>1, SizesAddUp
<1> HIDE DEF Is
<1>9. OffsetsOf(S, ikey) = Cardinality(UpTo(0, n, X)) /\ IsFiniteSet(UpTo(0, n, X))
  BY <1>6, <1>7, <1>8 DEF Sums
<1>10. UpTo(0, n, X) = UNION {Counted(f, ikey) : f \in S}
  <2>1. \A f \in S : \E i \in 1 .. n : X[i] = Counted(f, ikey)
    BY <1>1, <1>3, <1>4 DEF Enumerates
  <2>2. \A i \in 1 .. n : \E f \in S : X[i] = Counted(f, ikey)
    BY <1>3, <1>4
  <2>3. 0 + 1 .. n = 1 .. n
    BY <1>3
  <2> QED BY <2>1, <2>2, <2>3 DEF UpTo
<1> QED BY <1>9, <1>10

-----------------------------------------------------------------------------
(* What the offsets of two keys differ by                                  *)

EntriesCounted(S, ikey) == UNION {Counted(f, ikey) : f \in S}

\* The files that ApproximateOffsetOf leaves out hold nothing that counts.
LEMMA FilesBeforeCount ==
  ASSUME NEW v, Version(v), NEW level \in Levels, NEW ikey \in IKey, ikey \notin Entry
  PROVE  /\ FilesBefore(v, level, ikey) \subseteq FilesOf(v[level])
         /\ EntriesCounted(FilesBefore(v, level, ikey), ikey) = EntriesCounted(FilesOf(v[level]), ikey)
<1>1. v[level] \in Seq(File)
  BY VersionFilesAreFiles
<1>2. CASE level = 0
  BY <1>2 DEF FilesBefore
<1>3. CASE level # 0
  <2> DEFINE files == v[level]
             after == {i \in DOMAIN files : Less(ikey, files[i].smallest)}
             before == {j \in DOMAIN files : \A a \in after : j < a}
  <2>1. FilesBefore(v, level, ikey) = {files[i] : i \in before}
    BY <1>3 DEF FilesBefore
  <2>2. DOMAIN files = 1 .. Len(files) /\ Len(files) \in Nat /\ \A i \in DOMAIN files : files[i] \in File
    BY <1>1
  <2>3. InOrder(files)
    BY <1>3 DEF Version
  <2>4. ASSUME NEW j \in DOMAIN files, j \notin before PROVE Counted(files[j], ikey) = {}
    <3>1. PICK a \in after : a <= j
      BY <2>2, <2>4
    <3>2. /\ files[a] \in File /\ files[j] \in File
          /\ Less(ikey, files[a].smallest) /\ a \in DOMAIN files
      BY <2>2, <3>1
    <3>3. CASE a = j
      BY <3>2, <3>3, OffsetCounts
    <3>4. CASE a # j
      <4>1. a < j
        BY <2>2, <3>1, <3>2, <3>4
      <4>2. Less(files[a].largest, files[j].smallest)
        BY <2>3, <3>2, <4>1 DEF InOrder
      <4>3. /\ files[a].smallest \in IKey /\ files[a].largest \in IKey /\ files[j].smallest \in IKey
            /\ LessEq(files[a].smallest, files[a].largest)
        BY <3>2, FileBounds, EntriesAreKeys
      <4>4. Less(ikey, files[j].smallest)
        BY <3>2, <4>2, <4>3, KeyOrder
      <4> QED BY <3>2, <4>4, OffsetCounts
    <3> QED BY <3>3, <3>4
  <2>5. before \subseteq DOMAIN files
    OBVIOUS
  <2> HIDE DEF before, files
  <2>6. FilesBefore(v, level, ikey) \subseteq FilesOf(files)
    BY <2>1, <2>5 DEF FilesOf
  <2>7. ASSUME NEW f \in FilesOf(files), NEW e \in Counted(f, ikey) PROVE f \in FilesBefore(v, level, ikey)
    <3>1. PICK j \in DOMAIN files : f = files[j]
      BY DEF FilesOf
    <3> QED BY <2>1, <2>4, <2>7, <3>1
  <2> QED BY <2>6, <2>7 DEF EntriesCounted, files
<1> QED BY <1>2, <1>3

\* One level adds the number of its entries that count.
LEMMA LevelOffset ==
  ASSUME NEW v, Version(v), Distinct(v), NEW level \in Levels, NEW ikey \in IKey, ikey \notin Entry
  PROVE  /\ OffsetsOf(FilesBefore(v, level, ikey), ikey)
              = Cardinality(EntriesCounted(FilesOf(v[level]), ikey))
         /\ IsFiniteSet(EntriesCounted(FilesOf(v[level]), ikey))
<1> DEFINE S == FilesBefore(v, level, ikey)
<1>1. /\ v[level] \in Seq(File) /\ FilesOf(v[level]) \subseteq File
      /\ FilesOf(v[level]) \subseteq AllFiles(v)
  BY VersionFilesAreFiles
<1>2. IsFiniteSet(FilesOf(v[level]))
  BY <1>1, FilesAreFinite
<1>3. S \subseteq FilesOf(v[level]) /\ EntriesCounted(S, ikey) = EntriesCounted(FilesOf(v[level]), ikey)
  BY FilesBeforeCount
<1> HIDE DEF S
<1>4. S \in SUBSET File /\ IsFiniteSet(S)
  BY <1>1, <1>2, <1>3, FS_Subset
<1>5. \A f, g \in S : f # g => f.number # g.number /\ f.entries \cap g.entries = {}
  BY <1>1, <1>3 DEF Version, Distinct
<1>6. OffsetsOf(S, ikey) = Cardinality(EntriesCounted(S, ikey)) /\ IsFiniteSet(EntriesCounted(S, ikey))
  BY ONLY <1>4, <1>5, ikey \in IKey, ikey \notin Entry, OffsetsAddUp DEF EntriesCounted
<1> QED BY <1>3, <1>6 DEF S

\* ApproximateOffsetOf counts the entries that count in their files.
LEMMA OffsetsCountEntries ==
  ASSUME NEW v, Version(v), Distinct(v), NEW ikey \in IKey, ikey \notin Entry
  PROVE  /\ ApproximateOffsetOf(v, ikey) = Cardinality(EntriesCounted(AllFiles(v), ikey))
         /\ IsFiniteSet(EntriesCounted(AllFiles(v), ikey))
<1> DEFINE n == kNumLevels - 1
           O(level) == OffsetsOf(FilesBefore(v, level, ikey), ikey)
           X == [level \in Levels |-> EntriesCounted(FilesOf(v[level]), ikey)]
           Is(s) == s = [level \in -1 .. n |-> IF level = -1 THEN 0 ELSE s[level - 1] + O(level)]
<1>1. n \in Nat /\ -1 \in Int /\ -1 <= n /\ (-1) + 1 .. n = Levels
  BY LevelsAssumption DEF Levels
<1>2. \A level \in Levels : O(level) = Cardinality(X[level]) /\ IsFiniteSet(X[level])
  <2> SUFFICES ASSUME NEW level \in Levels
               PROVE  /\ OffsetsOf(FilesBefore(v, level, ikey), ikey)
                           = Cardinality(EntriesCounted(FilesOf(v[level]), ikey))
                      /\ IsFiniteSet(EntriesCounted(FilesOf(v[level]), ikey))
    OBVIOUS
  <2> QED BY LevelOffset
<1>3. ASSUME NEW i \in Levels, NEW j \in Levels, i # j PROVE X[i] \cap X[j] = {}
  <2>1. FilesOf(v[i]) \cap FilesOf(v[j]) = {}
    BY <1>3 DEF Distinct
  <2>2. FilesOf(v[i]) \subseteq AllFiles(v) /\ FilesOf(v[j]) \subseteq AllFiles(v)
    BY VersionFilesAreFiles
  <2>3. \A f \in FilesOf(v[i]), g \in FilesOf(v[j]) : f.entries \cap g.entries = {}
    BY <2>1, <2>2 DEF Distinct
  <2>4. \A f \in FilesOf(v[i]), g \in FilesOf(v[j]) : Counted(f, ikey) \cap Counted(g, ikey) = {}
    <3>1. FilesOf(v[i]) \subseteq File /\ FilesOf(v[j]) \subseteq File
      BY VersionFilesAreFiles
    <3>2. \A f \in FilesOf(v[i]) \cup FilesOf(v[j]) : Counted(f, ikey) \subseteq f.entries
      BY <3>1, OffsetCounts DEF Below
    <3> QED BY <2>3, <3>2
  <2> QED BY <2>4 DEF EntriesCounted
<1>4. ApproximateOffsetOf(v, ikey) = (CHOOSE s : Is(s))[n]
  BY DEF ApproximateOffsetOf, OffsetsOf, OffsetIn, FilesBefore
<1>5. UNION {X[i] : i \in Levels} = EntriesCounted(AllFiles(v), ikey)
  BY DEF EntriesCounted, AllFiles
<1> HIDE DEF X
<1>6. ASSUME NEW s PROVE Is(s) <=> SumIs(-1, n, X, s)
  <2>1. ASSUME NEW i \in -1 .. n
        PROVE  (IF i = -1 THEN 0 ELSE s[i - 1] + O(i)) = (IF i = -1 THEN 0 ELSE s[i - 1] + Cardinality(X[i]))
    <3> HIDE DEF O
    <3>1. i = -1 \/ i \in Levels
      BY <1>1
    <3> QED BY <1>2, <3>1
  <2> HIDE DEF O, n
  <2>2. [i \in -1 .. n |-> IF i = -1 THEN 0 ELSE s[i - 1] + O(i)]
          = [i \in -1 .. n |-> IF i = -1 THEN 0 ELSE s[i - 1] + Cardinality(X[i])]
    BY <2>1, Zenon
  <2> QED BY <2>2 DEF SumIs
<1> HIDE DEF Is, n
<1> DEFINE b == -1
<1>7. Sums(b, n, X)
  <2>1. b \in Int /\ n \in Int /\ b <= n /\ Separate(b, n, X)
    BY <1>1, <1>2, <1>3 DEF Separate
  <2> HIDE DEF b
  <2> QED BY ONLY <2>1, SizesAddUp
<1>8. (CHOOSE s : Is(s))[n] = Cardinality(UpTo(b, n, X)) /\ IsFiniteSet(UpTo(b, n, X))
  BY <1>6, <1>7 DEF Sums
<1>9. UpTo(b, n, X) = EntriesCounted(AllFiles(v), ikey)
  BY <1>1, <1>5 DEF UpTo
<1> QED BY <1>4, <1>8, <1>9

\* The key that a size is asked for is before every entry of its user key.
LEMMA SeekKeys ==
  ASSUME NEW k \in Int
  PROVE  /\ SeekTo(k) \in IKey /\ SeekTo(k) \notin Entry
         /\ \A e \in Entry : Less(e, SeekTo(k)) <=> e.key < k
         /\ \A l \in Int : k < l => Less(SeekTo(k), SeekTo(l))
<1>1. kMaxSequenceNumber \in Nat
  BY SMT DEF kMaxSequenceNumber
<1> DEFINE m == kMaxSequenceNumber
           a == SeekTo(k)
<1>3. \A l : SeekTo(l) = [key |-> l, seq |-> m, type |-> kValueTypeForSeek]
  BY DEF SeekTo, InternalKey
<1>4. a.key = k /\ a.seq = m
  BY <1>3
<1>5. \A l \in Int : SeekTo(l) \in IKey /\ SeekTo(l).key = l
  BY <1>1, <1>3 DEF IKey, kValueTypeForSeek
<1>6. \A e \in Entry : e.key \in Int /\ e.seq \in Nat /\ e.seq < m
  BY EntriesAreKeys
<1> HIDE DEF m, a
<1>7. a \notin Entry
  BY <1>1, <1>4, <1>6 DEF m
<1>8. ASSUME NEW e \in Entry PROVE Less(e, a) <=> e.key < k
  <2>1. m \in Nat
    BY <1>1 DEF m
  <2> QED BY <1>4, <1>6, <2>1 DEF Less
<1>9. \A l \in Int : k < l => Less(SeekTo(k), SeekTo(l))
  BY <1>5, KeyOrder
<1> QED BY <1>5, <1>7, <1>8, <1>9 DEF a

\* A version has finitely many files.
LEMMA AllFilesAreFinite ==
  ASSUME NEW v, Version(v) PROVE IsFiniteSet(AllFiles(v))
<1> DEFINE at == [level \in Levels |-> FilesOf(v[level])]
           T == {FilesOf(v[level]) : level \in Levels}
<1>1. IsFiniteSet(Levels)
  BY LevelsAssumption, FS_Interval DEF Levels
<1>2. at \in Surjection(Levels, T)
  BY DEF Surjection
<1>3. \A X \in T : IsFiniteSet(X)
  <2>1. \A level \in Levels : v[level] \in Seq(File)
    BY VersionFilesAreFiles
  <2> QED BY <2>1, FilesAreFinite
<1> HIDE DEF at
<1>4. IsFiniteSet(T)
  BY <1>1, <1>2, FS_Surjection
<1> QED BY <1>3, <1>4, FS_UNION DEF AllFiles

\* How far an offset is from the number of the entries before its key.
LEMMA OffsetWithinBlocks ==
  ASSUME Version(version), Distinct(version), NEW k \in Int,
         NEW U, U = {e \in Contents(version) : e.key < k}
  PROVE  LET P == EntriesCounted(AllFiles(version), SeekTo(k))
         IN /\ ApproximateOffsetOf(version, SeekTo(k)) = Cardinality(P)
            /\ IsFiniteSet(P) /\ P \subseteq U /\ IsFiniteSet(U)
            /\ IsFiniteSet(LastBlocks(SeekTo(k)))
            /\ Cardinality(P) \in Nat /\ Cardinality(U) \in Nat
            /\ Cardinality(LastBlocks(SeekTo(k))) \in Nat
            /\ Cardinality(P) <= Cardinality(U)
            /\ Cardinality(U) <= Cardinality(P) + Cardinality(LastBlocks(SeekTo(k)))
<1> DEFINE F == AllFiles(version)
           ikey == SeekTo(k)
           P == EntriesCounted(F, ikey)
           L == LastBlocks(ikey)
<1>1. /\ ikey \in IKey /\ ikey \notin Entry
      /\ \A e \in Entry : Less(e, ikey) <=> e.key < k
  BY SeekKeys
<1>2. F \subseteq File /\ Contents(version) \subseteq Entry
  BY VersionFilesAreFiles, ContentsAreEntries
<1>3. ApproximateOffsetOf(version, ikey) = Cardinality(P) /\ IsFiniteSet(P)
  BY <1>1, OffsetsCountEntries
<1> HIDE DEF ikey
<1>4. \A f \in F : \A e \in f.entries : e \in Contents(version) /\ (e \in Below(f, ikey) <=> e.key < k)
  BY <1>1, <1>2 DEF Contents, Below
<1>5. P \subseteq U
  <2>1. \A f \in F : Counted(f, ikey) \subseteq Below(f, ikey)
    BY <1>1, <1>2, OffsetCounts
  <2>2. \A f \in F : Below(f, ikey) \subseteq U
    BY <1>4 DEF Below
  <2> QED BY <2>1, <2>2 DEF EntriesCounted
<1>6. U \subseteq P \cup L
  <2> SUFFICES ASSUME NEW e \in U, e \notin P PROVE e \in L
    OBVIOUS
  <2>1. PICK f \in F : e \in f.entries
    BY DEF Contents
  <2>2. e \in Below(f, ikey)
    BY <1>4, <2>1
  <2>3. e \notin Counted(f, ikey)
    BY <2>1 DEF EntriesCounted
  <2>4. e \in LastBefore(f, ikey) /\ Less(f.smallest, ikey) /\ Less(ikey, f.largest)
    <3>1. f \in File
      BY <1>2
    <3> QED BY ONLY <1>1, <2>2, <2>3, <3>1, OffsetCounts
  <2>5. F = VersionFiles(version)
    BY DEF AllFiles, VersionFiles
  <2> QED BY <2>1, <2>4, <2>5 DEF LastBlocks
<1>7. IsFiniteSet(Contents(version))
  <2>1. IsFiniteSet({f.entries : f \in F})
    <3>1. IsFiniteSet(F)
      BY AllFilesAreFinite
    <3> DEFINE g == [f \in F |-> f.entries]
    <3>2. g \in Surjection(F, {f.entries : f \in F})
      BY DEF Surjection
    <3> QED BY <3>1, <3>2, FS_Surjection
  <2>2. \A T \in {f.entries : f \in F} : IsFiniteSet(T)
    BY <1>2 DEF File
  <2> QED BY <2>1, <2>2, FS_UNION DEF Contents
<1>8. IsFiniteSet(U)
  BY <1>7, FS_Subset
<1>9. IsFiniteSet(L)
  <2>1. L \subseteq Contents(version)
    BY DEF LastBlocks, LastBefore, Contents, AllFiles, VersionFiles
  <2> QED BY <1>7, <2>1, FS_Subset
<1> HIDE DEF P, L, F
<1>10. Cardinality(P) <= Cardinality(U)
  BY <1>5, <1>8, FS_Subset
<1>11. /\ Cardinality(P) \in Nat /\ Cardinality(L) \in Nat /\ Cardinality(P \cap L) \in Nat
       /\ Cardinality(U) \in Nat
  <2>1. IsFiniteSet(P \cap L)
    BY <1>3, FS_Subset
  <2> QED BY <1>3, <1>8, <1>9, <2>1, FS_CardinalityType
<1>12. Cardinality(U) <= Cardinality(P) + Cardinality(L)
  <2>1. IsFiniteSet(P \cup L) /\ Cardinality(P \cup L) = Cardinality(P) + Cardinality(L) - Cardinality(P \cap L)
    BY <1>3, <1>9, FS_Union
  <2>2. Cardinality(U) <= Cardinality(P \cup L)
    BY <1>6, <2>1, FS_Subset
  <2> QED BY <1>11, <2>1, <2>2
<1> QED BY <1>3, <1>5, <1>8, <1>9, <1>10, <1>11, <1>12 DEF P, L, F, ikey

\* What GetApproximateSizes answers for a range of keys is the number of the
\* entries that the tables hold in it, give or take the blocks its ends fall into.
LEMMA SizesAreBounded ==
  ASSUME Version(version), Distinct(version) PROVE ApproximateSizesBounded
<1> DEFINE C == Contents(version)
           Under(k) == {e \in C : e.key < k}
           P(k) == EntriesCounted(AllFiles(version), SeekTo(k))
           L(k) == Cardinality(LastBlocks(SeekTo(k)))
<1>1. /\ SizeKeys \subseteq Int /\ \A e \in C : e.key \in Int
  BY LSMAssumption, ContentsAreEntries, EntriesAreKeys
<1>2. ASSUME NEW k \in Int
      PROVE  /\ ApproximateOffsetOf(version, SeekTo(k)) = Cardinality(P(k))
             /\ IsFiniteSet(P(k)) /\ IsFiniteSet(Under(k))
             /\ Cardinality(P(k)) \in Nat /\ Cardinality(Under(k)) \in Nat /\ L(k) \in Nat
             /\ Cardinality(P(k)) <= Cardinality(Under(k))
             /\ Cardinality(Under(k)) <= Cardinality(P(k)) + L(k)
  BY OffsetWithinBlocks
<1> DEFINE offset == [k \in SizeKeys |-> ApproximateOffsetOf(version, SeekTo(k))]
<1>3. ASSUME NEW a \in SizeKeys, NEW b \in SizeKeys, a < b
      PROVE  LET between == Cardinality(EntriesBetween(a, b))
             IN /\ offset[b] - offset[a] >= 0
                /\ between - L(b) <= offset[b] - offset[a]
                /\ offset[b] - offset[a] <= between + L(a)
  <2>0. a \in Int /\ b \in Int
    BY <1>1
  <2>1. offset[a] = Cardinality(P(a)) /\ offset[b] = Cardinality(P(b))
    BY <1>2, <2>0
  <2>2. P(a) \subseteq P(b)
    <3>1. SeekTo(a) \in IKey /\ SeekTo(b) \in IKey /\ Less(SeekTo(a), SeekTo(b))
      BY <1>3, <2>0, SeekKeys
    <3>2. AllFiles(version) \subseteq File
      BY VersionFilesAreFiles
    <3>3. \A f \in AllFiles(version) : Counted(f, SeekTo(a)) \subseteq Counted(f, SeekTo(b))
      BY <3>1, <3>2, OffsetsGrow
    <3> QED BY <3>3 DEF EntriesCounted
  <2>3. Cardinality(P(a)) <= Cardinality(P(b))
    <3>1. IsFiniteSet(P(b))
      BY <1>2, <2>0
    <3> HIDE DEF P
    <3> QED BY <2>2, <3>1, FS_Subset
  <2>4. Under(a) \subseteq Under(b) /\ Under(b) \ Under(a) = EntriesBetween(a, b)
    <3>1. EntriesBetween(a, b) = {e \in C : a <= e.key /\ e.key < b}
      BY DEF EntriesBetween, Contents, AllFiles, VersionFiles
    <3> HIDE DEF C
    <3>2. \A e \in C : /\ (e.key < a => e.key < b)
                       /\ (e.key < b /\ ~(e.key < a)) <=> (a <= e.key /\ e.key < b)
      BY <1>1, <1>3, <2>0
    <3> QED BY <3>1, <3>2
  <2>5. Cardinality(EntriesBetween(a, b)) = Cardinality(Under(b)) - Cardinality(Under(a))
    <3>1. IsFiniteSet(Under(b))
      BY <1>2, <2>0
    <3>2. Under(b) \cap Under(a) = Under(a)
      BY <2>4
    <3> HIDE DEF Under
    <3>3. Cardinality(Under(b) \ Under(a)) = Cardinality(Under(b)) - Cardinality(Under(b) \cap Under(a))
      BY <3>1, FS_Difference
    <3> QED BY <2>4, <3>2, <3>3
  <2> HIDE DEF P, Under, L, offset
  <2> QED BY <1>2, <2>0, <2>1, <2>3, <2>5
<1> HIDE DEF offset
<1> QED BY <1>3 DEF ApproximateSizesBounded, offset

\* GetApproximateSizes grows with the range, and is off from the number of the
\* table entries in it by at most a data block of every table that an end of
\* the range falls into, as long as no one calls CompactRange.
THEOREM ApproximateSizesStayBounded ==
  ASSUME MaxRangeCalls = 0 PROVE Spec => []ApproximateSizesBounded
<1>1. Init => LevelsInv /\ EntriesInv
  BY LevelsInvInit, EntriesInvInit
<1>2. LevelsInv /\ EntriesInv /\ [Next]_vars => LevelsInv' /\ EntriesInv'
  BY LevelsStep, EntriesStep
<1>3. LevelsInv /\ EntriesInv => ApproximateSizesBounded
  BY SizesAreBounded DEF LevelsInv, VersionInv, EntriesInv
<1> QED BY <1>1, <1>2, <1>3, PTL DEF Spec
=============================================================================
