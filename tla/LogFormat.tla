----------------------------- MODULE LogFormat -----------------------------
(***************************************************************************)
(* The format of logs and manifests: log::Writer (db/log_writer.cc) cuts a *)
(* record into physical records that fit into blocks, log::Reader          *)
(* (db/log_reader.cc) puts them together again.  The file is the sequence  *)
(* of physical records with their places; of the last one before a failing *)
(* call only some bytes are written, and the next one begins where they    *)
(* end.  What a reader finds at a place where no header was written, or    *)
(* only a part of one, may be any length and type; a checksum never        *)
(* matches there by accident.  A crash cuts the file off anywhere; the     *)
(* payload of a physical record may be damaged.                            *)
(***************************************************************************)
EXTENDS Integers, Sequences, FiniteSets, SequencesExt

CONSTANTS
  kBlockSize,        \* 32768
  Lengths,           \* lengths of records
  MaxRecords, MaxFaults,
  FaultBytes,        \* how much of a physical record may reach the file
  TrailerBytes,      \* how much of a trailer may reach it when its Append fails
  InitialOffsets,    \* where readers start
  NULL

VARIABLES
  phys,              \* the physical records: [start, type, length, written, rec, damaged]
  size,              \* length of the file
  block_offset_,
  records,           \* per AddRecord: [start, end, ok, whole, fragments]
  reader             \* the reader, or NULL

vars == <<phys, size, block_offset_, records, reader>>

kHeaderSize == 7

-----------------------------------------------------------------------------
(* Writer::AddRecord.                                                      *)

\* The type of a fragment.
RecordType(begin, end) ==
  IF begin /\ end THEN "full" ELSE IF begin THEN "first" ELSE IF end THEN "last" ELSE "middle"

\* EmitPhysicalRecord: fault is NULL or how many bytes reach the file before a
\* call fails; block_offset_ moves on all the same.  whole: no Append failed.
EmitPhysicalRecord(w, type, n, fault) ==
  LET written == IF fault = NULL THEN kHeaderSize + n ELSE fault
  IN [w EXCEPT !.phys = Append(@, [start |-> w.size, type |-> type, length |-> n,
                                   written |-> written, rec |-> w.rec, damaged |-> FALSE]),
               !.size = @ + written,
               !.block_offset = @ + kHeaderSize + n,
               !.ok = fault = NULL, !.whole = @ /\ fault = NULL]

\* Broken variant: a new block is begun without filling up the old one.
FillTrailerUnwritten(w) ==
  IF kBlockSize - w.block_offset >= kHeaderSize THEN w ELSE [w EXCEPT !.block_offset = 0]

\* The rest of a block that has no room for a header is filled up.  Nobody looks
\* at the Append's status: w.trailer is NULL or what reaches the file when it fails.
FillTrailer(w) ==
  LET leftover == kBlockSize - w.block_offset
      written == IF w.trailer = NULL \/ w.trailer > leftover THEN leftover ELSE w.trailer
  IN IF leftover >= kHeaderSize THEN w
     ELSE [w EXCEPT !.size = @ + written, !.block_offset = 0, !.whole = @ /\ written = leftover]

\* faults[i] is the fault of the i-th fragment.
RECURSIVE EmitFragments(_, _, _, _)
EmitFragments(w, left, begin, faults) ==
  LET filled == FillTrailer(w)
      avail == kBlockSize - filled.block_offset - kHeaderSize
      n == IF left < avail THEN left ELSE avail
      fault == IF faults = <<>> THEN NULL ELSE faults[1]
      done == EmitPhysicalRecord(filled, RecordType(begin, left = n), n,
                IF fault # NULL /\ fault > kHeaderSize + n THEN kHeaderSize + n ELSE fault)
  IN IF ~done.ok \/ left = n THEN done
     ELSE EmitFragments(done, left - n, FALSE, IF faults = <<>> THEN faults ELSE Tail(faults))

Faults == Cardinality({i \in DOMAIN records : ~records[i].whole})

AddRecord ==
  /\ reader = NULL /\ Len(records) < MaxRecords
  /\ \E n \in Lengths,
        faults \in {<<>>} \cup IF Faults < MaxFaults
                               THEN {<<f>> : f \in FaultBytes} \cup {<<NULL, f>> : f \in FaultBytes}
                               ELSE {},
        trailer \in {NULL} \cup IF Faults < MaxFaults THEN TrailerBytes ELSE {} :
       LET w == EmitFragments([phys |-> phys, size |-> size, block_offset |-> block_offset_,
                               rec |-> Len(records) + 1, trailer |-> trailer,
                               ok |-> TRUE, whole |-> TRUE], n, TRUE, faults)
       IN /\ phys' = w.phys /\ size' = w.size /\ block_offset_' = w.block_offset
          /\ records' = Append(records, [start |-> w.phys[Len(phys) + 1].start, end |-> w.size,
                                         ok |-> w.ok, whole |-> w.whole,
                                         fragments |-> SubSeq(w.phys, Len(phys) + 1, Len(w.phys))])
  /\ UNCHANGED reader

-----------------------------------------------------------------------------
(* Reader.                                                                 *)

NewReader(initial) ==
  [end |-> 0, buffer |-> 0, eof |-> FALSE, last_record_offset |-> 0, initial |-> initial,
   resyncing |-> initial > 0, scratch |-> <<>>, fragmented |-> FALSE,
   result |-> NULL, reported |-> FALSE, finished |-> FALSE]

\* A drop before the initial offset is not reported; the difference is unsigned.
ReportDrop(r, bytes) ==
  LET at == r.end - r.buffer - bytes
  IN [r EXCEPT !.reported = @ \/ at < 0 \/ at >= r.initial]

SkipToInitialBlock(r) ==
  LET offset == r.initial % kBlockSize
      start == r.initial - offset + (IF offset > kBlockSize - (kHeaderSize - 1) THEN kBlockSize ELSE 0)
  IN [r EXCEPT !.end = start]

\* The next block, or what is left of the file.
ReadBuffer(r) ==
  LET left == IF r.end >= size THEN 0 ELSE size - r.end
      n == IF left < kBlockSize THEN left ELSE kBlockSize
  IN [r EXCEPT !.buffer = n, !.end = @ + n, !.eof = n < kBlockSize]

DropBuffer(r) == [r EXCEPT !.buffer = 0]

\* What is read at the start of the buffer; NULL when it was not written as a
\* header, or not all of it, or not with all its payload behind it.
HeaderAt(r) ==
  LET at == {i \in DOMAIN phys : phys[i].start = r.end - r.buffer /\ phys[i].written >= kHeaderSize}
  IN IF at = {} THEN NULL ELSE phys[CHOOSE i \in at : \A j \in at : j <= i]

Intact(p) == p.written = kHeaderSize + p.length /\ ~p.damaged

Answer(r, type, fragment) == [r |-> r, type |-> type, fragment |-> fragment]

\* What may be read where no header is: a length beyond the buffer (silent at
\* the end of the file, where the writer may have died), a zero type and length
\* (silent: a preallocated region), or a checksum that does not match.
ReadUnwritten(r) ==
  {Answer(ReportDrop(DropBuffer(r), r.buffer), "bad", NULL), Answer(DropBuffer(r), "bad", NULL)}
    \cup IF r.eof THEN {Answer(DropBuffer(r), "eof", NULL)} ELSE {}

\* The physical record whose header is p.
ReadHeader(r, p) ==
  LET rest == [r EXCEPT !.buffer = @ - (kHeaderSize + p.length)]
      TooLong == kHeaderSize + p.length > r.buffer
  IN IF TooLong /\ r.eof THEN Answer(DropBuffer(r), "eof", NULL)
     ELSE IF TooLong \/ ~Intact(p) THEN Answer(ReportDrop(DropBuffer(r), r.buffer), "bad", NULL)
     ELSE IF rest.end - rest.buffer - kHeaderSize - p.length < r.initial
          THEN Answer(rest, "bad", NULL)
     ELSE Answer(rest, p.type, p)

\* The answers ReadPhysicalRecord may give.
RECURSIVE ReadPhysicalRecord(_)
ReadPhysicalRecord(r) ==
  IF r.buffer < kHeaderSize
  THEN IF r.eof THEN {Answer(DropBuffer(r), "eof", NULL)} ELSE ReadPhysicalRecord(ReadBuffer(r))
  ELSE IF HeaderAt(r) = NULL THEN ReadUnwritten(r) ELSE {ReadHeader(r, HeaderAt(r))}

ScratchSize(r) == FoldLeft(LAMBDA sum, p : sum + p.length, 0, r.scratch)

\* What was collected before a record begins is a record without an end.
DropPartial(r) ==
  IF r.fragmented /\ ScratchSize(r) > 0 THEN ReportDrop(r, ScratchSize(r)) ELSE r

\* Broken variant: the fragments met so far are kept when a record begins.
BeginRecordKeepingScratch(r, p) == [r EXCEPT !.scratch = Append(@, p), !.fragmented = TRUE]

BeginRecord(r, p) == [DropPartial(r) EXCEPT !.scratch = <<p>>, !.fragmented = TRUE]

Yield(r, fragments) == [r EXCEPT !.result = fragments, !.last_record_offset = fragments[1].start]
Forget(r) == [r EXCEPT !.scratch = <<>>, !.fragmented = FALSE]

\* What each physical record does to the record being put together: the readers
\* there may be when the call returns.
RECURSIVE AssembleRecord(_)
AssembleRecord(r0) ==
  LET Then(a) ==
        LET r == [a.r EXCEPT !.resyncing = @ /\ a.type = "middle"]
            p == a.fragment
        IN IF a.r.resyncing /\ a.type \in {"middle", "last"} THEN AssembleRecord(r)
           ELSE CASE a.type = "full" -> {Yield(DropPartial(r), <<p>>)}
                  [] a.type = "first" -> AssembleRecord(BeginRecord(r, p))
                  [] a.type = "middle" ->
                       AssembleRecord(IF r.fragmented THEN [r EXCEPT !.scratch = Append(@, p)]
                                      ELSE ReportDrop(r, p.length))
                  [] a.type = "last" -> IF r.fragmented THEN {Yield(r, Append(r.scratch, p))}
                                        ELSE AssembleRecord(ReportDrop(r, p.length))
                  [] a.type = "eof" -> {[r EXCEPT !.finished = TRUE]}
                  [] a.type = "bad" ->
                       AssembleRecord(IF r.fragmented THEN Forget(ReportDrop(r, ScratchSize(r))) ELSE r)
  IN UNION {Then(a) : a \in ReadPhysicalRecord(r0)}

ReadRecord(r) ==
  LET start == IF r.last_record_offset < r.initial THEN SkipToInitialBlock(r) ELSE r
  IN AssembleRecord([Forget(start) EXCEPT !.result = NULL])

-----------------------------------------------------------------------------
Init ==
  /\ phys = <<>> /\ size = 0 /\ block_offset_ = 0 /\ records = <<>>
  /\ reader = NULL

\* The process ends; of the file any part from the front is left.
Crash ==
  /\ reader = NULL
  /\ \E left \in 0 .. size :
       /\ size' = left
       /\ phys' = SelectSeq(phys, LAMBDA p : p.start < left)
  /\ \E initial \in InitialOffsets : reader' = [r |-> NewReader(initial), read |-> <<>>]
  /\ UNCHANGED <<block_offset_, records>>

\* The payload of a physical record is damaged before it is read.
Damage ==
  /\ reader # NULL /\ reader.read = <<>> /\ reader.r.end = 0
  /\ \A j \in DOMAIN phys : ~phys[j].damaged
  /\ \E i \in DOMAIN phys : phys' = [phys EXCEPT ![i].damaged = TRUE]
  /\ UNCHANGED <<size, block_offset_, records, reader>>

Read ==
  /\ reader # NULL /\ ~reader.r.finished
  /\ \E r \in ReadRecord(reader.r) :
       reader' = [r |-> r, read |-> IF r.finished THEN reader.read ELSE Append(reader.read, r.result)]
  /\ UNCHANGED <<phys, size, block_offset_, records>>

Next == AddRecord \/ Crash \/ Damage \/ Read

Spec == Init /\ [][Next]_vars

-----------------------------------------------------------------------------
\* The records acknowledged that begin at or after the initial offset and lie
\* in what is left of the file.
Surviving ==
  {i \in DOMAIN records : records[i].ok /\ records[i].end <= size /\ records[i].start >= reader.r.initial}

\* The fragments of a record as they were written.
Fragments(i) == records[i].fragments

\* Whatever is cut off, damaged or left behind by a failing write, the reader
\* yields only whole records that were written, in their order: fragments of
\* different records are never put together.
OnlyWrittenRecordsAreRead ==
  reader # NULL =>
    \E from \in [DOMAIN reader.read -> DOMAIN records] :
      /\ \A i \in DOMAIN reader.read : reader.read[i] = Fragments(from[i])
      /\ \A i, j \in DOMAIN reader.read : i < j => from[i] < from[j]

Undamaged == \A i \in DOMAIN phys : ~phys[i].damaged

\* The records written before any Append failed, their own included.
BeforeFailures == {i \in DOMAIN records : \A j \in 1 .. i : records[j].whole}

\* Neither a cut nor damage nor an Append that fails later makes the reader lose
\* a record without a word: each one written before any Append failed, and still
\* in the file, is read, or a corruption is reported; from an initial offset on
\* (inside a block, where a drop may begin before the offset and is not
\* reported) if nothing is damaged.  Of what comes after a failed Append the
\* reader may lose records silently: see AcknowledgedRecordsAreRead.
NothingIsLostSilently ==
  reader # NULL /\ reader.r.finished /\ ~reader.r.reported
    /\ (reader.r.initial = 0 \/ Undamaged) =>
    \A i \in Surviving \cap BeforeFailures :
      \E j \in DOMAIN reader.read : reader.read[j] = Fragments(i)

\* WriteOptions (options.h 194-196): if only the process ends, no write that
\* was acknowledged is lost.  (Violated: after a failing AddRecord the writer
\* goes on as if all its bytes were in the file.)
AcknowledgedRecordsAreRead ==
  reader # NULL /\ reader.r.finished /\ reader.r.initial = 0 /\ Undamaged =>
    \A i \in Surviving : \E j \in DOMAIN reader.read : reader.read[j] = Fragments(i)
=============================================================================
