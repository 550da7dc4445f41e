------------------------------ MODULE MCStorage ------------------------------
(***************************************************************************)
(* One instance of each component that stores or carries data: a table     *)
(* with the iterators over it, a log file, and the messages of nanopb.  A  *)
(* state is a state of one of them: part says which, and the others stay   *)
(* in an initial state.                                                    *)
(***************************************************************************)
EXTENDS Integers, Sequences

CONSTANTS NULL,
          kMaxByte, kMaxSequenceNumber, block_size, block_restart_interval, kFilterBase,
          bits_per_key, MinBits, k_, HashBits, MaxAdds, FailingCalls, MaxMem, Snapshots,
          kBlockSize, Lengths, MaxRecords, MaxFaults, FaultBytes, TrailerBytes,
          InitialOffsets,
          MaxSet

VARIABLES part,
          builder, added, table, tableMem, iter, cursor,
          phys, size, block_offset_, records, reader,
          msg, wire, got

-----------------------------------------------------------------------------
(* The table's keys: <<0>> has one entry, <<0, 1>> a deletion above a value, *)
(* <<2>> two values, <<1>> none; the memtable may add a value of <<0, 1>> or *)
(* delete <<2>>, and <<0, 1>> may be written again later.                    *)
Formats == INSTANCE InternalKeys
Value(u, s) == Formats!AppendInternalKey(u, s, Formats!kTypeValue)
Deletion(u, s) == Formats!AppendInternalKey(u, s, Formats!kTypeDeletion)

TableKeys == {Value(<<0>>, 1), Deletion(<<0, 1>>, 2), Value(<<0, 1>>, 1),
              Value(<<2>>, 2), Value(<<2>>, 1)}
LookupKeys == {Value(u, s) : u \in {<<>>, <<0>>, <<0, 1>>, <<1>>, <<2>>}, s \in {1, 2}}
MemKeys == {Value(<<0, 1>>, 3), Deletion(<<2>>, 3)}
LaterKeys == {Value(<<0, 1>>, 4)}
Targets == {<<1>>}
BloomHash(key) == IF key = <<>> THEN 5 ELSE (11 * Len(key) + 23 * key[1] + 7 * key[Len(key)]) % 64

-----------------------------------------------------------------------------
(* Messages with a field of every kind: the reader has the same descriptor   *)
(* or an older one, which lacks most fields.                                 *)
FieldOf(tag, htype, ltype, n) ==
  [tag |-> tag, atype |-> "static", htype |-> htype, ltype |-> ltype, size |-> n,
   array_size |-> 2, sub |-> <<>>, has |-> htype = "optional",
   default |-> IF ltype \in {"bytes", "string"} THEN <<>> ELSE 0]
Callback(tag) == [FieldOf(tag, "optional", "bytes", 2) EXCEPT !.atype = "callback"]
Sub == <<FieldOf(1, "required", "uvarint", 2), Callback(2)>>
Item == <<FieldOf(1, "optional", "svarint", 1), FieldOf(2, "repeated", "fixed32", 2)>>
Fields ==
  <<FieldOf(1, "required", "uvarint", 2), FieldOf(2, "optional", "varint", 1),
    [FieldOf(3, "optional", "string", 3) EXCEPT !.has = FALSE],
    FieldOf(4, "repeated", "varint", 2),
    [FieldOf(5, "repeated", "submessage", 0) EXCEPT !.sub = Item],
    [FieldOf(6, "optional", "submessage", 0) EXCEPT !.sub = Sub],
    FieldOf(7, "oneof", "fixed64", 4),
    [FieldOf(8, "oneof", "submessage", 0) EXCEPT !.sub = Item],
    FieldOf(9, "repeated", "bytes", 2), FieldOf(10, "optional", "fixed_length_bytes", 2),
    Callback(11),
    [FieldOf(12, "optional", "extension", 0) EXCEPT
       !.sub = <<[FieldOf(13, "optional", "svarint", 2) EXCEPT !.has = FALSE]>>]>>
Readers == {Fields, <<Fields[1], Fields[4], Fields[8]>>}

AnItem(a, b) == [t \in {1, 2} |-> IF t = 1 THEN a ELSE b]
ASub(a, b) == [t \in {1, 2} |-> IF t = 1 THEN <<a>> ELSE b]
Entries(f) ==
  CASE f.tag = 1 -> {<<200>>}
    [] f.tag = 2 -> {<<0>>, <<-3>>}
    [] f.tag = 3 -> {<<<<1, 15>>>>, <<<<2, 0>>>>}
    [] f.tag = 4 -> {<<0, -1>>, <<100, 1, 2>>}
    [] f.tag = 5 -> {<<AnItem(<<>>, <<1, 255>>), AnItem(<<-2>>, <<>>)>>}
    [] f.tag = 6 -> {<<ASub(0, <<>>)>>, <<ASub(9, <<<<7>>, <<7>>>>)>>,
                     <<ASub(9, <<<<7>>, <<7, 7>>>>)>>, <<ASub(9, <<<<7, 7>>, <<7>>>>)>>}
    [] f.tag = 7 -> {<<0>>, <<40000>>}
    [] f.tag = 8 -> {<<AnItem(<<3>>, <<>>)>>}
    [] f.tag = 9 -> {<<<<>>, <<9, 9>>>>}
    [] f.tag = 10 -> {<<<<0, 3>>>>}
    [] f.tag = 11 -> {<<<<1, 2>>, <<1, 2>>>>, <<<<1>>, <<1, 2>>>>}
    [] f.tag = 12 -> {<<[field |-> f.sub[1], found |-> FALSE, entry |-> <<-100>>]>>}

-----------------------------------------------------------------------------
Tables == INSTANCE Iterators WITH mem <- tableMem
Log == INSTANCE LogFormat
Messages == INSTANCE Nanopb

tableVars == <<builder, added, table, tableMem, iter, cursor>>
logVars == <<phys, size, block_offset_, records, reader>>
messageVars == <<msg, wire, got>>
vars == <<part, tableVars, logVars, messageVars>>

Init == /\ part \in {"tables", "log", "messages"}
        /\ Log!Init /\ Messages!Init
        /\ Tables!Init
        /\ part # "tables" => builder = CHOOSE b \in {Tables!NewBuilder(FALSE, c) : c \in FailingCalls} : TRUE

Next ==
  \/ part = "tables" /\ Tables!Next /\ UNCHANGED <<part, logVars, messageVars>>
  \/ part = "log" /\ Log!Next /\ UNCHANGED <<part, tableVars, messageVars>>
  \/ part = "messages" /\ Messages!Next /\ UNCHANGED <<part, tableVars, logVars>>

Spec == Init /\ [][Next]_vars

-----------------------------------------------------------------------------
\* Of each component, what its module says of it.

\* Table::InternalGet and ApproximateOffsetOf (of a table that no iterator is
\* open on: an iterator changes nothing of it).
LookupsAreRight == iter = NULL => Tables!LookupsAreRight
\* DBIter over the merging and two-level iterators: a cursor over the map.
IteratorIsACursor == Tables!IteratorIsACursor
\* log::Reader returns records of the writer, whole and in order.
OnlyWrittenRecordsAreRead == Log!OnlyWrittenRecordsAreRead
\* log::Reader reports what it drops.
NothingIsLostSilently == Log!NothingIsLostSilently
\* pb_encode, pb_get_encoded_size and pb_decode agree.
WholeMessagesArrive == Messages!WholeMessagesArrive
\* pb_decode of a part of a message: whole fields or none.
TruncationOnlyLosesFields == Messages!TruncationOnlyLosesFields
=============================================================================
