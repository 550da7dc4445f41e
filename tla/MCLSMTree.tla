----------------------------- MODULE MCLSMTree -----------------------------
EXTENDS LSMTree

Put(k) == [key |-> k, type |-> kTypeValue]
Del(k) == [key |-> k, type |-> kTypeDeletion]

\* Every sequence of MaxWrites writes and deletions.
AllScripts == [1 .. MaxWrites -> {Put(k) : k \in Keys} \cup {Del(k) : k \in Keys}]

\* Every sequence of MaxWrites writes whose deletions are of the first key.
FewDeletes == [1 .. MaxWrites -> {Put(k) : k \in Keys} \cup {Del(1)}]

\* Those of them that do not begin with a deletion.
PutFirst == {s \in FewDeletes : s[1].type = kTypeValue}

WholeRange == {<<NULL, NULL>>}

\* A separator between two keys that are not neighbours.
Halfway(a, b) == (a + b) \div 2

\* Two writes of the smallest key, two of the largest, and one of a key between.
OneIntoTheGap ==
  {[i \in 1 .. MaxWrites |-> Put(IF i <= 2 THEN 1 ELSE IF i <= 4 THEN 3 ELSE 2)]}
=============================================================================
