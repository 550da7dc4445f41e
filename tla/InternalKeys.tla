---------------------------- MODULE InternalKeys ----------------------------
(***************************************************************************)
(* The orders of keys (util/comparator.cc, db/dbformat.cc).  A user key is *)
(* a sequence of bytes 0 .. kMaxByte; an internal key is a user key with   *)
(* one more element, the packed sequence number and type.                  *)
(***************************************************************************)
EXTENDS Integers, Sequences, SequencesExt, FiniteSetsExt

CONSTANTS
  kMaxByte,               \* 0xff in the code
  kMaxSequenceNumber

kTypeDeletion == 0
kTypeValue == 1
kValueTypeForSeek == kTypeValue

Sign(n) == IF n < 0 THEN -1 ELSE IF n > 0 THEN 1 ELSE 0

\* Positions at which two keys differ within their common length.
Differences(a, b) == {i \in 1 .. Min({Len(a), Len(b)}) : a[i] # b[i]}

\* BytewiseComparatorImpl::Compare
Compare(a, b) ==
  LET diff == Differences(a, b)
  IN IF diff = {} THEN Sign(Len(a) - Len(b)) ELSE Sign(a[Min(diff)] - b[Min(diff)])

\* BytewiseComparatorImpl::FindShortestSeparator; nothing is shortened when one
\* key is a prefix of the other.
FindShortestSeparator(start, limit) ==
  LET diff == Differences(start, limit)
      i == Min(diff)
  IN IF diff = {} \/ start[i] >= kMaxByte \/ start[i] + 1 >= limit[i] THEN start
     ELSE Append(SubSeq(start, 1, i - 1), start[i] + 1)

\* BytewiseComparatorImpl::FindShortSuccessor
FindShortSuccessor(key) ==
  LET small == {i \in DOMAIN key : key[i] # kMaxByte}
  IN IF small = {} THEN key ELSE Append(SubSeq(key, 1, Min(small) - 1), key[Min(small)] + 1)

PackSequenceAndType(seq, type) == seq * 2 + type
AppendInternalKey(user_key, seq, type) == Append(user_key, PackSequenceAndType(seq, type))

ExtractUserKey(ikey) == Front(ikey)
SequenceOf(ikey) == Last(ikey) \div 2
TypeOf(ikey) == Last(ikey) % 2

\* InternalKeyComparator::Compare: newer entries of a key come first.
InternalCompare(a, b) ==
  LET r == Compare(ExtractUserKey(a), ExtractUserKey(b))
  IN IF r # 0 THEN r ELSE Sign(Last(b) - Last(a))

\* A shortened user key gets the number that sorts before all its entries.
Shortened(ikey, tmp) ==
  LET user == ExtractUserKey(ikey)
  IN IF Len(tmp) < Len(user) /\ Compare(user, tmp) < 0
     THEN AppendInternalKey(tmp, kMaxSequenceNumber, kValueTypeForSeek) ELSE ikey

InternalSeparator(start, limit) ==
  Shortened(start, FindShortestSeparator(ExtractUserKey(start), ExtractUserKey(limit)))

InternalSuccessor(ikey) == Shortened(ikey, FindShortSuccessor(ExtractUserKey(ikey)))
=============================================================================
