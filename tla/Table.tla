------------------------------- MODULE Table -------------------------------
(***************************************************************************)
(* A table file: TableBuilder (table/table_builder.cc, filter_block.cc,    *)
(* util/bloom.cc) writes it, Table (table/table.cc, format.cc) reads it.   *)
(* The file is a function from offsets to the blocks written there; any    *)
(* call of the file may fail while it is written, and blocks may be        *)
(* damaged when it is read.                                                *)
(***************************************************************************)
EXTENDS Block, TLC

CONSTANTS
  TableKeys,               \* the internal keys that may be added
  LookupKeys,              \* the internal keys looked up
  block_size, block_restart_interval,
  kFilterBase,             \* 2 KB
  bits_per_key, MinBits,   \* MinBits is 64
  k_,                      \* probes per key
  HashBits,                \* 32
  BloomHash(_),            \* of a user key, below 2^HashBits
  MaxAdds,                 \* bound on the entries of a table
  FailingCalls             \* which call of the file may fail

VARIABLES
  builder,     \* TableBuilder::Rep, with the file it writes
  added,       \* the internal keys added, in order
  table        \* the table once it is open, NULL before

tableVars == <<builder, added, table>>

kBlockTrailerSize == 5

-----------------------------------------------------------------------------
(* Bloom filters: a set of bits with the number of bits and of probes.     *)

\* Double hashing: h, h + delta, h + 2 delta, ...
Probe(key, j, bits) ==
  LET h == BloomHash(key)
      delta == (h \div 2 ^ (HashBits \div 2)) + (h % 2 ^ (HashBits \div 2)) * 2 ^ (HashBits \div 2)
  IN ((h + j * delta) % 2 ^ HashBits) % bits

CreateFilter(keys) ==
  LET wanted == Max({Cardinality(keys) * bits_per_key, MinBits})
      bits == 8 * ((wanted + 7) \div 8)
  IN [bits |-> bits, k |-> k_, array |-> {Probe(key, j, bits) : key \in keys, j \in 0 .. k_ - 1}]

NoKeys == [bits |-> 0, k |-> 0, array |-> {}]

\* BloomFilterPolicy::KeyMayMatch; an empty filter matches nothing.
FilterMatches(filter, key) ==
  /\ filter.bits > 0
  /\ \A j \in 0 .. filter.k - 1 : Probe(key, j, filter.bits) \in filter.array

-----------------------------------------------------------------------------
(* FilterBlockBuilder and FilterBlockReader.  InternalFilterPolicy hands   *)
(* the user keys on.                                                       *)

GenerateFilter(f) ==
  [keys |-> {},
   filters |-> Append(f.filters, IF f.keys = {} THEN NoKeys ELSE CreateFilter(f.keys))]

\* One filter for each kFilterBase bytes of the file before the block.
StartBlock(f, block_offset) ==
  LET missing == (block_offset \div kFilterBase) - Len(f.filters)
  IN FoldLeft(LAMBDA g, i : GenerateFilter(g), f, [i \in 1 .. missing |-> i])

AddKey(f, ikey) == [f EXCEPT !.keys = @ \cup {ExtractUserKey(ikey)}]

FinishFilter(f) == (IF f.keys = {} THEN f ELSE GenerateFilter(f)).filters

\* Past the last filter everything may match.
KeyMayMatch(filters, block_offset, ikey) ==
  LET index == block_offset \div kFilterBase + 1
  IN index \in DOMAIN filters => FilterMatches(filters[index], ExtractUserKey(ikey))

-----------------------------------------------------------------------------
(* TableBuilder.                                                           *)

NewBuilder(policy, calls) ==
  [offset |-> 0, ok |-> TRUE, closed |-> FALSE, calls |-> calls, blocks |-> <<>>,
   data |-> EmptyBuilder, index |-> EmptyBuilder, last_key |-> <<>>,
   pending |-> FALSE, pending_handle |-> NULL, footer |-> NULL,
   policy |-> policy, filter |-> [keys |-> {}, filters |-> <<>>]]

\* n calls of the file; the one that calls counts down to fails.
FileCalls(r, n) == [r EXCEPT !.calls = @ - n, !.ok = r.calls \notin 1 .. n]

\* The contents and the trailer are two calls.
WriteRawBlock(r, contents, size) ==
  LET done == FileCalls(r, 2)
  IN IF ~done.ok THEN done
     ELSE [done EXCEPT !.blocks = @ @@ (r.offset :> [contents |-> contents, size |-> size]),
                       !.offset = @ + size + kBlockTrailerSize]

\* The build has no Snappy: blocks are stored as they are.
WriteBlock(r, b) == WriteRawBlock(r, FinishBlock(b), CurrentSizeEstimate(b))
Handle(r, size) == [offset |-> r.offset, size |-> size]

Flush(r) ==
  LET written == WriteBlock(r, r.data)
      flushed == IF written.ok THEN FileCalls([written EXCEPT !.pending = TRUE], 1) ELSE written
  IN IF ~r.ok \/ r.data.entries = <<>> THEN r
     ELSE [flushed EXCEPT !.pending_handle = Handle(r, CurrentSizeEstimate(r.data)),
                          !.data = EmptyBuilder,
                          !.filter = IF r.policy THEN StartBlock(@, flushed.offset) ELSE @]

\* The index entry of a block waits for the first key of the next one.
AddIndexEntry(r, key) ==
  IF ~r.pending THEN r
  ELSE [r EXCEPT !.index = AddEntry(@, 1, key, r.pending_handle), !.pending = FALSE]

Add(r, key) ==
  LET indexed == AddIndexEntry(r, InternalSeparator(r.last_key, key))
      grown == [indexed EXCEPT !.filter = IF r.policy THEN AddKey(@, key) ELSE @,
                               !.last_key = key,
                               !.data = AddEntry(@, block_restart_interval, key, SequenceOf(key))]
  IN IF ~r.ok THEN r
     ELSE IF CurrentSizeEstimate(grown.data) >= block_size THEN Flush(grown) ELSE grown

FilterBlockSize(filters) ==
  5 + 4 * Len(filters) + FoldLeft(LAMBDA sum, f : sum + f.bits \div 8 + 1, 0, filters)

\* The parts of the end of the file; each is written only if those before it
\* were.
WriteFooter(r, metaindex, index) ==
  LET done == IF r.ok THEN FileCalls(r, 1) ELSE r
  IN [done EXCEPT !.closed = TRUE,
                  !.footer = IF done.ok THEN [metaindex |-> metaindex, index |-> index] ELSE NULL]

WriteIndexBlock(r, metaindex) ==
  WriteFooter(IF r.ok THEN WriteBlock(r, r.index) ELSE r,
              metaindex, Handle(r, CurrentSizeEstimate(r.index)))

AddLastIndexEntry(r) == IF r.ok THEN AddIndexEntry(r, InternalSuccessor(r.last_key)) ELSE r

WriteMetaindexBlock(r, meta) ==
  WriteIndexBlock(AddLastIndexEntry(IF r.ok THEN WriteBlock(r, meta) ELSE r),
                  Handle(r, CurrentSizeEstimate(meta)))

WriteFilterBlock(r, filters, size) ==
  WriteMetaindexBlock(
    IF r.ok /\ r.policy THEN WriteRawBlock(r, filters, size) ELSE r,
    IF r.policy THEN AddEntry(EmptyBuilder, block_restart_interval, <<0>>, Handle(r, size))
                ELSE EmptyBuilder)

FinishAfterFlush(r) ==
  LET filters == FinishFilter(r.filter) IN WriteFilterBlock(r, filters, FilterBlockSize(filters))
Finish(r) == FinishAfterFlush(Flush(r))

-----------------------------------------------------------------------------
(* Table.  Damage is NULL or names a block and the entry of it that no     *)
(* longer decodes; with verify_checksums its checksum does not match.      *)

ReadBlock(file, handle) ==
  LET contents == file.blocks[handle.offset].contents
      d == file.damage
  IN IF handle.offset \notin DOMAIN file.blocks THEN NULL
     ELSE IF d = NULL \/ d.offset # handle.offset THEN contents
     ELSE IF file.verify THEN NULL ELSE [contents EXCEPT !.entries[d.entry] = Bad]

\* A filter that cannot be read is done without.
ReadMeta(file, footer, policy) ==
  LET meta == ReadBlock(file, footer.metaindex)
  IN IF ~policy \/ meta = NULL \/ meta.entries = <<>> THEN NULL
     ELSE ReadBlock(file, meta.entries[1].value)

OpenTable(file, footer, policy) ==
  LET index == ReadBlock(file, footer.index)
  IN IF index = NULL THEN NULL
     ELSE [file |-> file, index |-> index, metaindex |-> footer.metaindex.offset,
           filters |-> ReadMeta(file, footer, policy)]

EmptyBlock == [entries |-> <<>>, restarts |-> <<1>>]
ErrorIterator == [BlockIterator(EmptyBlock) EXCEPT !.ok = FALSE]

\* The block cache yields what ReadBlock did: blocks never change.
BlockReader(t, handle) ==
  LET block == ReadBlock(t.file, handle)
  IN IF block = NULL THEN ErrorIterator ELSE BlockIterator(block)

\* What saver is called with, or NULL, and the status.
InternalGet(t, k) ==
  LET iiter == BlockSeek(BlockIterator(t.index), k)
      handle == BlockValue(iiter)
      it == BlockSeek(BlockReader(t, handle), k)
  IN IF ~BlockValid(iiter) THEN [saved |-> NULL, ok |-> iiter.ok]
     ELSE IF t.filters # NULL /\ ~KeyMayMatch(t.filters, handle.offset, k)
          THEN [saved |-> NULL, ok |-> iiter.ok]
     ELSE [saved |-> IF BlockValid(it) THEN [key |-> it.key, value |-> BlockValue(it)] ELSE NULL,
           ok |-> it.ok /\ iiter.ok]

ApproximateOffsetOf(t, key) ==
  LET iiter == BlockSeek(BlockIterator(t.index), key)
  IN IF BlockValid(iiter) THEN BlockValue(iiter).offset ELSE t.metaindex

-----------------------------------------------------------------------------
TableInit ==
  /\ \E policy \in BOOLEAN, calls \in FailingCalls : builder = NewBuilder(policy, calls)
  /\ added = <<>>
  /\ table = NULL

AddAction ==
  /\ ~builder.closed /\ Len(added) < MaxAdds
  /\ \E key \in TableKeys :
       /\ added # <<>> => InternalCompare(key, added[Len(added)]) > 0
       /\ builder' = Add(builder, key)
       /\ added' = Append(added, key)
  /\ UNCHANGED table

\* A table without entries is abandoned (BuildTable), and so is one whose
\* status is bad.
FinishAction ==
  /\ ~builder.closed /\ builder.ok /\ added # <<>>
  /\ builder' = Finish(builder)
  /\ UNCHANGED <<added, table>>

Abandon ==
  /\ ~builder.closed
  /\ ~builder.ok \/ added = <<>>
  /\ builder' = [builder EXCEPT !.closed = TRUE]
  /\ UNCHANGED <<added, table>>

\* No damage, or one entry of a data block or of the index block.
Damages ==
  {NULL} \cup UNION {{[offset |-> o, entry |-> i] : i \in DOMAIN builder.blocks[o].contents.entries}
                      : o \in {h.value.offset : h \in ToSet(builder.blocks[builder.footer.index.offset]
                                                                .contents.entries)}
                              \cup {builder.footer.index.offset}}

\* Whether checksums are verified matters for a damaged file only, whether a
\* filter is asked for only for one that has it.
OpenAction ==
  /\ builder.footer # NULL /\ table = NULL
  /\ \E damage \in Damages, verify, policy \in BOOLEAN :
       /\ verify => damage # NULL
       /\ policy => builder.policy
       /\ table' = OpenTable([blocks |-> builder.blocks, damage |-> damage, verify |-> verify],
                             builder.footer, policy)
       /\ table' # NULL
  /\ UNCHANGED <<builder, added>>

TableNext == AddAction \/ FinishAction \/ Abandon \/ OpenAction

-----------------------------------------------------------------------------
GetIsRight ==
  table # NULL =>
    \A k \in LookupKeys :
      LET got == InternalGet(table, k)
          after == {i \in DOMAIN added : InternalCompare(added[i], k) >= 0}
          mine == after # {} /\ ExtractUserKey(added[Min(after)]) = ExtractUserKey(k)
      IN got.ok =>
           IF mine THEN got.saved = [key |-> added[Min(after)], value |-> SequenceOf(added[Min(after)])]
           ELSE got.saved # NULL => ExtractUserKey(got.saved.key) # ExtractUserKey(k)

OffsetsGrow ==
  table # NULL =>
    \A a, b \in LookupKeys :
      InternalCompare(a, b) <= 0 => ApproximateOffsetOf(table, a) <= ApproximateOffsetOf(table, b)

\* InternalGet with any key either reports an error or yields the first entry
\* at or after it, when that is of the same user key: no index entry, restart
\* point or filter hides it, and no other entry of that user key is returned.
\* And ApproximateOffsetOf grows with the key, so that the size of a range
\* that VersionSet computes from it is never negative.
LookupsAreRight == GetIsRight /\ OffsetsGrow
=============================================================================
