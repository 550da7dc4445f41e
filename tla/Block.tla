------------------------------- MODULE Block -------------------------------
(***************************************************************************)
(* Blocks of a table (table/block_builder.cc, table/block.cc): sorted      *)
(* entries whose keys share prefixes, with restart points where a key is   *)
(* stored whole.  An offset in the block is the index of an entry; an      *)
(* entry that DecodeEntry rejects is Bad.                                  *)
(***************************************************************************)
EXTENDS InternalKeys

CONSTANT NULL

Bad == [shared |-> -1, delta |-> <<>>, value |-> NULL]

-----------------------------------------------------------------------------
(* BlockBuilder.                                                           *)

EmptyBuilder == [entries |-> <<>>, restarts |-> <<1>>, counter |-> 0, last_key |-> <<>>]

\* Length of the common prefix.
SharedPrefix(a, b) ==
  LET diff == Differences(a, b)
  IN IF diff = {} THEN Min({Len(a), Len(b)}) ELSE Min(diff) - 1

AddEntry(b, interval, key, value) ==
  LET restart == b.counter >= interval
      shared == IF restart THEN 0 ELSE SharedPrefix(b.last_key, key)
  IN [entries |-> Append(b.entries, [shared |-> shared, value |-> value,
                                     delta |-> SubSeq(key, shared + 1, Len(key))]),
      restarts |-> IF restart THEN Append(b.restarts, Len(b.entries) + 1) ELSE b.restarts,
      counter |-> IF restart THEN 1 ELSE b.counter + 1,
      last_key |-> key]

\* Sizes: three bytes of lengths, the key delta and one byte of value per
\* entry; the restart array and its length.
CurrentSizeEstimate(b) ==
  FoldLeft(LAMBDA sum, e : sum + 4 + Len(e.delta), 0, b.entries) + Len(b.restarts) + 1

FinishBlock(b) == [entries |-> b.entries, restarts |-> b.restarts]

-----------------------------------------------------------------------------
(* Block::Iter: current is the entry it is at, one past the last when it   *)
(* is not valid; next is where ParseNextKey goes on.                       *)

BlockIterator(block) ==
  [block |-> block, current |-> Len(block.entries) + 1, restart_index |-> Len(block.restarts) + 1,
   next |-> Len(block.entries) + 1, key |-> <<>>, ok |-> TRUE]

BlockValid(it) == it.current <= Len(it.block.entries)
BlockValue(it) == it.block.entries[it.current].value

NoMoreEntries(it) ==
  [it EXCEPT !.current = Len(it.block.entries) + 1, !.restart_index = Len(it.block.restarts) + 1]

CorruptionError(it) == [NoMoreEntries(it) EXCEPT !.ok = FALSE, !.key = <<>>]

SeekToRestartPoint(it, index) ==
  [it EXCEPT !.key = <<>>, !.restart_index = index, !.next = it.block.restarts[index]]

\* The restart index follows the entry once the next restart is before it.
ParseNextKey(it) ==
  LET c == it.next
      e == it.block.entries[c]
      passed == {i \in DOMAIN it.block.restarts : i > it.restart_index /\ it.block.restarts[i] < c}
  IN IF c > Len(it.block.entries) THEN NoMoreEntries(it)
     ELSE IF e = Bad \/ Len(it.key) < e.shared THEN CorruptionError(it)
     ELSE [it EXCEPT !.current = c, !.next = c + 1,
                     !.key = SubSeq(it.key, 1, e.shared) \o e.delta,
                     !.restart_index = Max({it.restart_index} \cup passed)]

\* ParseNextKey again and again while it succeeds and More.
ParseWhile(it, More(_)) ==
  LET parse[n \in 0 .. Len(it.block.entries)] ==
        IF n = 0 THEN ParseNextKey(it)
        ELSE IF BlockValid(parse[n - 1]) /\ More(parse[n - 1])
             THEN ParseNextKey(parse[n - 1]) ELSE parse[n - 1]
  IN parse[Len(it.block.entries)]

\* Broken variant: entries equal to the target are skipped.
BlockSeekPastEqual(it, target) ==
  ParseWhile(SeekToRestartPoint(it, 1), LAMBDA i : InternalCompare(i.key, target) <= 0)

\* The binary search keeps the last restart whose key is below the target.
RECURSIVE SearchRestarts(_, _, _, _)
SearchRestarts(block, target, left, right) ==
  IF left >= right THEN left
  ELSE LET mid == (left + right + 1) \div 2
           e == block.entries[block.restarts[mid]]
       IN IF e = Bad \/ e.shared # 0 THEN NULL
          ELSE IF InternalCompare(e.delta, target) < 0
               THEN SearchRestarts(block, target, mid, right)
               ELSE SearchRestarts(block, target, left, mid - 1)

BlockSeek(it, target) ==
  LET left == SearchRestarts(it.block, target, 1, Len(it.block.restarts))
  IN IF left = NULL THEN CorruptionError(it)
     ELSE ParseWhile(SeekToRestartPoint(it, left), LAMBDA i : InternalCompare(i.key, target) < 0)

BlockNext(it) == ParseNextKey(it)

\* Back to the last restart before the entry, then forward to just before it.
BlockPrev(it) ==
  LET before == {i \in 1 .. it.restart_index : it.block.restarts[i] < it.current}
  IN IF before = {} THEN NoMoreEntries(it)
     ELSE ParseWhile(SeekToRestartPoint(it, Max(before)), LAMBDA i : i.next < it.current)

BlockSeekToFirst(it) == ParseNextKey(SeekToRestartPoint(it, 1))

BlockSeekToLast(it) ==
  ParseWhile(SeekToRestartPoint(it, Len(it.block.restarts)),
             LAMBDA i : i.next <= Len(it.block.entries))
=============================================================================
