--------------------------- MODULE DBFilesProofs ---------------------------
(***************************************************************************)
(* The files of a database survive: for any number of writes, crashes,     *)
(* failing calls and file numbers, what is in use exists, a write          *)
(* acknowledged after a sync is never lost, and DB::Open finds it.         *)
(*                                                                         *)
(* The invariant says of CURRENT's manifest, for every length a crash may  *)
(* leave it, that it describes a database (DiskInv); of an open database,  *)
(* how its memory, its logs and its background work agree with the         *)
(* manifest (OpenInv); and what DB::Open has rebuilt so far (ReplayInv,    *)
(* SnapshotInv).                                                           *)
(***************************************************************************)
EXTENDS DBFiles, SequenceTheorems, WellFoundedInduction, TLAPS

Entry == [seq : Nat, id : Nat, found : {"yes", "maybe"}]
EditRecord == [log : Nat, next : Nat, last : Nat, added : SUBSET Nat, deleted : SUBSET Nat]
\* A record of a manifest, or the piece a failed write leaves.
EditOrPiece == EditRecord \cup {NULL}
TableFile == [data : SUBSET Entry, synced : BOOLEAN]
Steps == {"build", "apply"}
Flushes == [number : Nat, step : Steps]
Merges == [number : Nat, step : Steps, inputs : SUBSET Nat]
Phases == {"up", "down", "corrupt", "replay", "snapshot", "sync", "rename", "install"}

\* NULL is no memtable, version, edit or piece of work.
NullIsNoValue ==
  /\ NULL \notin SUBSET Entry /\ NULL \notin SUBSET Nat /\ NULL \notin EditRecord
  /\ NULL \notin Flushes /\ NULL \notin Merges

\* Files whose data are sequences over E, synced up to some length.
HasFiles(files, E) ==
  /\ DOMAIN files \subseteq Nat /\ files \in [DOMAIN files -> [data : Seq(E), synced : Nat]]
  /\ \A n \in DOMAIN files : files[n].synced <= Len(files[n].data)

DiskTypes ==
  /\ HasFiles(logs, Entry)
  /\ HasFiles(manifests, EditOrPiece)
  /\ DOMAIN tables \subseteq Nat /\ tables \in [DOMAIN tables -> TableFile]
  /\ current \in Nat

MemoryTypes ==
  /\ phase \in Phases
  /\ mem \in SUBSET Entry /\ imm \in (SUBSET Entry) \cup {NULL}
  /\ logfile_number \in Nat /\ log_number \in Nat /\ manifest_file_number \in Nat
  /\ next_file_number \in Nat /\ last_sequence \in Nat
  /\ version \in SUBSET Nat /\ pinned \in (SUBSET Nat) \cup {NULL}
  /\ pending_outputs \in SUBSET Nat
  /\ flush \in Flushes \cup {NULL} /\ merge \in Merges \cup {NULL}
  /\ edit \in EditRecord \cup {NULL}
  /\ replay \in SUBSET Nat /\ bg_error \in BOOLEAN
  /\ issued \in Nat /\ promised \in SUBSET Nat

TypeInv == DiskTypes /\ MemoryTypes

-----------------------------------------------------------------------------
(* What is on the disk.                                                    *)

DataOf(t, ns) == UNION {t[n].data : n \in ns}
From(l, first) == {n \in DOMAIN l : n >= first}
LogData(l, first) == UNION {ToSet(l[n].data) : n \in From(l, first)}
SyncedPart(f) == ToSet(SubSeq(f.data, 1, f.synced))
SyncedData(l, first) == UNION {SurelyRead(l[n]) : n \in From(l, first)}
\* The records of a log that any reader finds.
Sound(entries) == {e \in entries : e.found = "yes"}
NumbersAreUnique(entries) == \A e, f \in entries : e.seq = f.seq => e.id = f.id

\* The first k records of manifest number m describe a database: its tables are
\* there, and with what is surely read of the logs it names they have what was
\* promised, each sequence number once.
Described(edits, k, m, t, l, p) ==
  LET v == ApplyEdits(edits, k)
      last == LastEdit(edits, k)
  IN /\ Whole(edits, k) # {}
     /\ last.log < last.next /\ m < last.next
     /\ \A n \in v : /\ n \in DOMAIN t /\ t[n].synced /\ n < last.next
                     /\ \A e \in t[n].data : e.seq <= last.last
     /\ p \subseteq Ids(DataOf(t, v)) \cup Ids(SyncedData(l, last.log))
     /\ NumbersAreUnique(DataOf(t, v) \cup LogData(l, last.log))

DiskInv ==
  /\ current \in DOMAIN manifests
  /\ \A k \in PossibleLengths :
       Described(Manifest.data, k, current, tables, logs, promised)

-----------------------------------------------------------------------------
(* An open database.                                                       *)

NumbersInv ==
  /\ logfile_number \in DOMAIN logs
  /\ \A n \in DOMAIN logs : n <= logfile_number
  /\ log_number <= logfile_number /\ logfile_number < next_file_number
  /\ manifest_file_number = current /\ current < next_file_number

\* What the open database has; with its logs, which may have records of writes
\* that failed; and the records of the memtable that outlive a crash.
Known == mem \cup Entries(imm) \cup DataOf(tables, version)
Present == Known \cup LogData(logs, log_number)
SafeInLog == mem \cap SurelyRead(logs[logfile_number])

\* Without an immutable memtable one log is needed; the tables of versions.
MemoryInv == imm = NULL => log_number = logfile_number

HeldInv ==
  \A n \in version \cup Entries(pinned) : Complete(n) /\ n < next_file_number

ContentsInv ==
  /\ promised \subseteq Ids(Known)
  /\ \A e \in Present : e.seq <= last_sequence
  /\ NumbersAreUnique(Present)

\* The manifest, whatever a crash may make of it, says nothing that the memory
\* does not know; after an error it may say more than was installed.
ManifestInv ==
  LET size == Len(Manifest.data)
  IN /\ \A k \in PossibleLengths :
          LET last == LastEdit(Manifest.data, k)
          IN /\ log_number <= last.log /\ last.log <= logfile_number
             /\ last.next <= next_file_number /\ last.last <= last_sequence
             /\ DataOf(tables, VersionAt(k)) \subseteq Known
     /\ promised \subseteq Ids(DataOf(tables, VersionAt(size))) \cup Ids(Entries(imm))
                             \cup Ids(SafeInLog)
     /\ ~bg_error =>
          VersionAt(size) = IF edit # NULL /\ Appended
                            THEN (version \ edit.deleted) \cup edit.added ELSE version

\* The background thread: outputs are new tables with the data of what they
\* replace, and merge's is pending.
WorkInv ==
  /\ flush # NULL =>
       /\ imm # NULL
       /\ flush.number \in DOMAIN tables \ version /\ flush.number < next_file_number
       /\ tables[flush.number].data = imm
  /\ merge # NULL =>
       /\ merge.number \in DOMAIN tables \ version /\ merge.number < next_file_number
       /\ merge.number \in pending_outputs
       /\ merge.inputs \subseteq version
       /\ tables[merge.number].data = DataOf(tables, merge.inputs)
       /\ flush # NULL => flush.number # merge.number

\* The edit is that of the flush or of the merge, with numbers at least those
\* of the manifest.
EditInv ==
  edit # NULL =>
    /\ \/ /\ flush # NULL
          /\ edit.added = {flush.number} /\ edit.deleted = {} /\ edit.log = logfile_number
       \/ /\ flush = NULL /\ merge # NULL
          /\ edit.added = {merge.number} /\ edit.deleted = merge.inputs
          /\ edit.log = log_number
    /\ edit.log < edit.next /\ current < edit.next
    /\ edit.next <= next_file_number /\ edit.last <= last_sequence
    /\ \A n \in edit.added : /\ tables[n].synced /\ n < edit.next
                             /\ \A e \in tables[n].data : e.seq <= edit.last
    /\ \A k \in PossibleLengths : /\ LastEdit(Manifest.data, k).next <= edit.next
                                  /\ LastEdit(Manifest.data, k).last <= edit.last

OpenInv ==
  phase = "up" =>
    NumbersInv /\ MemoryInv /\ HeldInv /\ ContentsInv /\ ManifestInv /\ WorkInv /\ EditInv

-----------------------------------------------------------------------------
(* DB::Open.                                                               *)

ClosedInv ==
  phase # "up" =>
    /\ Manifest.synced = Len(Manifest.data)
    /\ mem = {} /\ imm = NULL /\ pinned = NULL /\ flush = NULL /\ merge = NULL
    /\ pending_outputs = {} /\ ~bg_error

\* While logs are replayed, those that are done are in tables of the edit.
ReplayInv ==
  phase = "replay" =>
    LET last == LastEdit(Manifest.data, Len(Manifest.data))
    IN /\ version = VersionAt(Len(Manifest.data))
       /\ log_number = last.log /\ manifest_file_number = last.next
       /\ manifest_file_number < next_file_number
       /\ replay \subseteq From(logs, log_number)
       /\ edit # NULL
       /\ \A n \in edit.added : Complete(n) /\ n < next_file_number
       /\ DataOf(tables, edit.added) \subseteq LogData(logs, log_number)
       /\ \A n \in From(logs, log_number) \ replay :
            /\ Sound(ToSet(logs[n].data)) \subseteq DataOf(tables, edit.added)
            /\ n < next_file_number
       /\ \A e \in DataOf(tables, version \cup edit.added) : e.seq <= last_sequence

Snapshotting == {"snapshot", "sync", "rename", "install"}

\* Then the version with the tables of the edit is complete ...
SnapshotReady ==
  /\ logfile_number \in DOMAIN logs /\ logs[logfile_number].data = <<>>
  /\ \A n \in DOMAIN logs : n <= logfile_number
  /\ logfile_number < next_file_number /\ manifest_file_number < next_file_number
  /\ edit # NULL
  /\ LET contents == DataOf(tables, version \cup edit.added)
     IN /\ promised \subseteq Ids(contents)
        /\ \A e \in contents : e.seq <= last_sequence
        /\ NumbersAreUnique(contents)
  /\ \A n \in version \cup edit.added : Complete(n) /\ n < next_file_number

\* ... and becomes the only record of a new manifest.
SnapshotWritten ==
  /\ manifest_file_number \in DOMAIN manifests
  /\ edit.log = logfile_number
  /\ manifests[manifest_file_number].data =
       <<[log |-> logfile_number, next |-> next_file_number, last |-> last_sequence,
          added |-> version \cup edit.added, deleted |-> {}]>>
  /\ phase # "sync" => manifests[manifest_file_number].synced = 1

SnapshotInv ==
  phase \in Snapshotting =>
    /\ SnapshotReady
    /\ phase = "install" <=> manifest_file_number = current
    /\ phase # "snapshot" => SnapshotWritten

FilesInv == DiskInv /\ OpenInv /\ ClosedInv /\ ReplayInv /\ SnapshotInv

-----------------------------------------------------------------------------
(* Numbers, and the calls on files.                                        *)

LEMMA LeastExists ==
  ASSUME NEW S, S \subseteq Nat, S # {}
  PROVE  \E x \in S : \A y \in S : x <= y
<1>1. PICK x \in S : \A y \in S : ~(<<y, x>> \in OpToRel(<, Nat))
  BY WFMin, NatLessThanWellFounded
<1>2. ASSUME NEW y \in S PROVE x <= y
  <2>1. x \in Nat /\ y \in Nat
    OBVIOUS
  <2>2. ~(y < x)
    BY <1>1, <2>1 DEF OpToRel
  <2> QED BY <2>1, <2>2
<1> QED BY <1>2

LEMMA MinOfNumbers ==
  ASSUME NEW S, S \subseteq Nat, S # {}
  PROVE  Min(S) \in S
BY LeastExists DEF Min

LEMMA MaxOfNumbers ==
  ASSUME NEW S, S \subseteq Nat, S # {}, NEW b \in Nat, \A y \in S : y <= b
  PROVE  Max(S) \in S /\ \A y \in S : y <= Max(S)
<1> DEFINE Above == {c \in Nat : \A y \in S : y <= c}
<1>1. PICK c \in Above : \A d \in Above : c <= d
  BY LeastExists
<1>2. c \in S
  <2> SUFFICES ASSUME c \notin S PROVE FALSE
    OBVIOUS
  <2>1. c \in Nat /\ \A y \in S : y \in Nat /\ y < c
    BY <1>1
  <2>2. c - 1 \in Nat
    <3>1. PICK y \in S : y \in Nat /\ y < c /\ c \in Nat
      BY <2>1
    <3> QED BY <3>1
  <2>3. ASSUME NEW y \in S PROVE y <= c - 1
    <3>1. y \in Nat /\ c \in Nat /\ y < c
      BY <2>1
    <3> QED BY <3>1
  <2>4. c - 1 \in Above
    BY <2>2, <2>3
  <2>5. c <= c - 1
    BY <1>1, <2>4
  <2> QED BY <2>1, <2>5
<1>3. \E x \in S : \A y \in S : x >= y
  BY <1>1, <1>2
<1>4. Max(S) \in S /\ \A y \in S : Max(S) >= y
  BY <1>3 DEF Max
<1> QED BY <1>4

LEMMA CreateFacts ==
  ASSUME NEW E, NEW files, HasFiles(files, E), NEW n \in Nat, NEW data \in Seq(E),
         NEW after, after = Create(files, n, data)
  PROVE  /\ HasFiles(after, E) /\ DOMAIN after = DOMAIN files \cup {n}
         /\ after[n] = [data |-> data, synced |-> 0]
         /\ \A m \in DOMAIN files \ {n} : after[m] = files[m]
<1>1. after = [m \in DOMAIN files \cup {n} |->
                 IF m = n THEN [data |-> data, synced |-> 0] ELSE files[m]]
  BY DEF Create, Empty
<1> QED BY <1>1 DEF HasFiles

LEMMA AppendFacts ==
  ASSUME NEW E, NEW files, HasFiles(files, E), NEW n \in DOMAIN files, NEW x \in E,
         NEW after, after = AppendTo(files, n, x)
  PROVE  /\ HasFiles(after, E) /\ DOMAIN after = DOMAIN files
         /\ after[n] = [data |-> Append(files[n].data, x), synced |-> files[n].synced]
         /\ \A m \in DOMAIN files \ {n} : after[m] = files[m]
<1>. files[n] \in [data : Seq(E), synced : Nat]
  BY DEF HasFiles
<1>1. after = [files EXCEPT ![n] = [data |-> Append(files[n].data, x), synced |-> files[n].synced]]
  <2>1. after = [files EXCEPT ![n] = [files[n] EXCEPT !.data = Append(files[n].data, x)]]
    BY DEF AppendTo
  <2> QED BY <2>1
<1>2. Len(Append(files[n].data, x)) = Len(files[n].data) + 1 /\ Append(files[n].data, x) \in Seq(E)
  BY DEF HasFiles
<1>3. DOMAIN after = DOMAIN files
  BY <1>1
<1> QED BY <1>1, <1>2, <1>3 DEF HasFiles

LEMMA SyncFacts ==
  ASSUME NEW E, NEW files, HasFiles(files, E), NEW n \in DOMAIN files,
         NEW after, after = SyncFile(files, n)
  PROVE  /\ HasFiles(after, E) /\ DOMAIN after = DOMAIN files
         /\ after[n] = [data |-> files[n].data, synced |-> Len(files[n].data)]
         /\ \A m \in DOMAIN files \ {n} : after[m] = files[m]
<1>. files[n] \in [data : Seq(E), synced : Nat]
  BY DEF HasFiles
<1>1. after = [files EXCEPT ![n] = [data |-> files[n].data, synced |-> Len(files[n].data)]]
  <2>1. after = [files EXCEPT ![n] = [files[n] EXCEPT !.synced = Len(files[n].data)]]
    BY DEF SyncFile
  <2> QED BY <2>1
<1>2. DOMAIN after = DOMAIN files
  BY <1>1
<1> QED BY <1>1, <1>2 DEF HasFiles

LEMMA KeepFacts ==
  ASSUME NEW E, NEW files, HasFiles(files, E), NEW ns, NEW after, after = Keep(files, ns)
  PROVE  /\ HasFiles(after, E) /\ DOMAIN after = DOMAIN files \cap ns
         /\ \A n \in DOMAIN after : after[n] = files[n]
<1>1. after = [n \in DOMAIN files \cap ns |-> files[n]]
  BY DEF Keep
<1> QED BY <1>1 DEF HasFiles

LEMMA PrefixFacts ==
  ASSUME NEW E, NEW d \in Seq(E), NEW k \in Nat, k <= Len(d)
  PROVE  /\ SubSeq(d, 1, k) \in Seq(E) /\ Len(SubSeq(d, 1, k)) = k
         /\ \A i \in 1 .. k : SubSeq(d, 1, k)[i] = d[i]
         /\ ToSet(SubSeq(d, 1, k)) = {d[i] : i \in 1 .. k}
<1>1. /\ SubSeq(d, 1, k) \in Seq(E) /\ Len(SubSeq(d, 1, k)) = k
      /\ \A i \in 1 .. k : SubSeq(d, 1, k)[i] = d[i]
  BY SubSeqProperties, k = k - 1 + 1
<1>2. PICK q \in Seq(E) : q = SubSeq(d, 1, k)
  BY <1>1
<1>3. DOMAIN q = 1 .. k /\ \A i \in 1 .. k : q[i] = d[i]
  BY <1>1, <1>2
<1>4. ToSet(q) = {d[i] : i \in 1 .. k}
  BY <1>3 DEF ToSet
<1> QED BY <1>1, <1>2, <1>4

\* What a crash leaves of a file.
Remains(f, g) == \E k \in f.synced .. Len(f.data) : g = [data |-> SubSeq(f.data, 1, k), synced |-> k]

LEMMA SurvivorsFacts ==
  ASSUME NEW E, NEW files, HasFiles(files, E), NEW after \in Survivors(files)
  PROVE  /\ HasFiles(after, E) /\ DOMAIN after = DOMAIN files
         /\ \A n \in DOMAIN files : Remains(files[n], after[n])
<1>1. PICK k : /\ \A n \in DOMAIN files : k[n] \in files[n].synced .. Len(files[n].data)
               /\ after = [n \in DOMAIN files |->
                             [data |-> SubSeq(files[n].data, 1, k[n]), synced |-> k[n]]]
  BY DEF Survivors
<1>2. \A n \in DOMAIN files : /\ after[n] = [data |-> SubSeq(files[n].data, 1, k[n]), synced |-> k[n]]
                              /\ k[n] \in Nat /\ k[n] <= Len(files[n].data)
  BY <1>1 DEF HasFiles
<1>3. \A n \in DOMAIN files : /\ SubSeq(files[n].data, 1, k[n]) \in Seq(E)
                              /\ Len(SubSeq(files[n].data, 1, k[n])) = k[n]
  <2> TAKE n \in DOMAIN files
  <2>1. PICK d \in Seq(E) : d = files[n].data
    BY DEF HasFiles
  <2> QED BY <1>2, <2>1, PrefixFacts, ZenonT(30)
<1>4. DOMAIN after = DOMAIN files
  BY <1>1
<1>5. HasFiles(after, E)
  <2>1. \A n \in DOMAIN files : /\ after[n] \in [data : Seq(E), synced : Nat]
                                /\ after[n].synced = Len(after[n].data)
    <3> TAKE n \in DOMAIN files
    <3>1. PICK q \in Seq(E) : q = SubSeq(files[n].data, 1, k[n])
      BY <1>3
    <3>2. k[n] \in Nat /\ Len(q) = k[n] /\ after[n] = [data |-> q, synced |-> k[n]]
      BY <1>2, <1>3, <3>1
    <3> QED BY <3>2
  <2>2. after \in [DOMAIN files -> [data : Seq(E), synced : Nat]]
    BY <1>1, <2>1
  <2> QED BY <1>4, <2>1, <2>2 DEF HasFiles
<1>6. \A n \in DOMAIN files : Remains(files[n], after[n])
  BY <1>1, <1>2 DEF Remains
<1> QED BY <1>4, <1>5, <1>6

\* The synced part of a file.
LEMMA PartFacts ==
  ASSUME NEW E, NEW d \in Seq(E), NEW s \in Nat, s <= Len(d)
  PROVE  /\ SyncedPart([data |-> d, synced |-> s]) \subseteq ToSet(d)
         /\ SyncedPart([data |-> d, synced |-> Len(d)]) = ToSet(d)
         /\ \A x \in E : /\ SyncedPart([data |-> Append(d, x), synced |-> s])
                              = SyncedPart([data |-> d, synced |-> s])
                         /\ ToSet(Append(d, x)) = ToSet(d) \cup {x}
<1>1. \A k \in Nat : k <= Len(d) => ToSet(SubSeq(d, 1, k)) = {d[i] : i \in 1 .. k}
  BY PrefixFacts
<1>2. ToSet(d) = {d[i] : i \in 1 .. Len(d)}
  BY DEF ToSet
<1>3. ASSUME NEW x \in E
      PROVE  /\ ToSet(SubSeq(Append(d, x), 1, s)) = ToSet(SubSeq(d, 1, s))
             /\ ToSet(Append(d, x)) = ToSet(d) \cup {x}
  <2>1. /\ Append(d, x) \in Seq(E) /\ Len(Append(d, x)) = Len(d) + 1
        /\ \A i \in 1 .. Len(d) : Append(d, x)[i] = d[i]
        /\ Append(d, x)[Len(d) + 1] = x
    OBVIOUS
  <2>2. ToSet(SubSeq(Append(d, x), 1, s)) = {Append(d, x)[i] : i \in 1 .. s}
    <3>1. PICK q \in Seq(E) : q = Append(d, x)
      BY <2>1
    <3>2. s <= Len(q)
      BY <2>1, <3>1
    <3> QED BY <3>1, <3>2, PrefixFacts
  <2>3. ToSet(Append(d, x)) = {Append(d, x)[i] : i \in 1 .. Len(d) + 1}
    BY <2>1 DEF ToSet
  <2>4. ToSet(SubSeq(d, 1, s)) = {d[i] : i \in 1 .. s} /\ 1 .. s \subseteq 1 .. Len(d)
    BY <1>1
  <2>5. {Append(d, x)[i] : i \in 1 .. s} = {d[i] : i \in 1 .. s}
    BY <2>1, <2>4
  <2>6. {Append(d, x)[i] : i \in 1 .. Len(d) + 1} = {d[i] : i \in 1 .. Len(d)} \cup {x}
    BY <2>1
  <2> QED BY <1>2, <2>2, <2>3, <2>4, <2>5, <2>6
<1> QED BY <1>1, <1>2, <1>3 DEF SyncedPart

\* Of it, a reader surely finds the sound records.
LEMMA SurelyReadFacts ==
  ASSUME NEW f
  PROVE  SurelyRead(f) = Sound(SyncedPart(f))
BY DEF SurelyRead, Sound, SyncedPart

LEMMA RemainsFacts ==
  ASSUME NEW E, NEW f \in [data : Seq(E), synced : Nat], f.synced <= Len(f.data),
         NEW g, Remains(f, g)
  PROVE  /\ SyncedPart(f) \subseteq SyncedPart(g) /\ ToSet(g.data) \subseteq ToSet(f.data)
         /\ SyncedPart(g) = ToSet(g.data)
         /\ g.synced = Len(g.data) /\ f.synced <= g.synced /\ g.synced <= Len(f.data)
         /\ \A i \in 1 .. g.synced : g.data[i] = f.data[i]
<1>1. PICK k \in f.synced .. Len(f.data) : g = [data |-> SubSeq(f.data, 1, k), synced |-> k]
  BY DEF Remains
<1>2. k \in Nat /\ k <= Len(f.data) /\ f.synced <= k /\ f.data \in Seq(E)
  BY <1>1
<1>3. \A j \in Nat : j <= Len(f.data) => ToSet(SubSeq(f.data, 1, j)) = {f.data[i] : i \in 1 .. j}
  BY <1>2, PrefixFacts
<1>4. g.data \in Seq(E) /\ Len(g.data) = k /\ g.synced = k /\ \A i \in 1 .. k : g.data[i] = f.data[i]
  BY <1>1, <1>2, PrefixFacts
<1>5. ToSet(f.data) = {f.data[i] : i \in 1 .. Len(f.data)}
  BY <1>2 DEF ToSet
<1>6. ToSet(g.data) = {f.data[i] : i \in 1 .. k}
  BY <1>4, SMTT(30) DEF ToSet
<1>7. SyncedPart(g) = ToSet(g.data)
  <2>1. PICK d \in Seq(E) : d = g.data
    BY <1>4
  <2>2. g = [data |-> d, synced |-> Len(d)]
    BY <1>1, <1>4, <2>1
  <2> QED BY <2>1, <2>2, PartFacts
<1>8. SyncedPart(f) = {f.data[i] : i \in 1 .. f.synced}
  BY <1>2, <1>3 DEF SyncedPart
<1> QED BY <1>2, <1>4, <1>5, <1>6, <1>7, <1>8

-----------------------------------------------------------------------------
(* What the records of a manifest say.                                     *)

LEMMA InEdits ==
  ASSUME NEW edits, NEW k, NEW n
  PROVE  n \in ApplyEdits(edits, k) <=>
           \E i \in Whole(edits, k) :
             /\ n \in edits[i].added
             /\ \A j \in Whole(edits, k) : j > i => n \notin edits[j].deleted
BY DEF ApplyEdits

LEMMA WholeFacts ==
  ASSUME NEW edits \in Seq(EditOrPiece), NEW k \in Nat, k <= Len(edits)
  PROVE  /\ Whole(edits, k) \subseteq 1 .. k
         /\ \A i \in Whole(edits, k) : edits[i] \in EditRecord
         /\ ApplyEdits(edits, k) \in SUBSET Nat
<1>1. Whole(edits, k) \subseteq 1 .. k
  BY DEF Whole
<1>2. ASSUME NEW i \in Whole(edits, k) PROVE edits[i] \in EditRecord
  <2>1. i \in 1 .. Len(edits) /\ edits[i] # NULL
    BY DEF Whole
  <2>2. edits[i] \in EditOrPiece
    BY <2>1
  <2> QED BY <2>1, <2>2 DEF EditOrPiece
<1>3. ASSUME NEW n \in ApplyEdits(edits, k) PROVE n \in Nat
  <2>1. PICK i \in Whole(edits, k) : n \in edits[i].added
    BY InEdits
  <2> QED BY <1>2, <2>1 DEF EditRecord
<1> QED BY <1>1, <1>2, <1>3

LEMMA LastFacts ==
  ASSUME NEW edits \in Seq(EditOrPiece), NEW k \in Nat, k <= Len(edits), Whole(edits, k) # {}
  PROVE  /\ Max(Whole(edits, k)) \in Whole(edits, k)
         /\ \A i \in Whole(edits, k) : i <= Max(Whole(edits, k))
         /\ LastEdit(edits, k) \in EditRecord
<1>1. Whole(edits, k) \subseteq Nat /\ \A i \in Whole(edits, k) : i <= k
  BY DEF Whole
<1>2. Max(Whole(edits, k)) \in Whole(edits, k) /\ \A i \in Whole(edits, k) : i <= Max(Whole(edits, k))
  BY <1>1, MaxOfNumbers
<1> QED BY <1>2, WholeFacts DEF LastEdit

\* Two manifests with the same first records.
LEMMA SamePrefix ==
  ASSUME NEW d \in Seq(EditOrPiece), NEW e \in Seq(EditOrPiece), NEW k \in Nat,
         k <= Len(d), k <= Len(e), \A i \in 1 .. k : d[i] = e[i], Whole(d, k) # {}
  PROVE  /\ Whole(d, k) = Whole(e, k) /\ ApplyEdits(d, k) = ApplyEdits(e, k)
         /\ LastEdit(d, k) = LastEdit(e, k)
<1>1. Whole(d, k) = Whole(e, k)
  BY DEF Whole
<1>2. \A i \in Whole(d, k) : d[i] = e[i]
  BY DEF Whole
<1>3. \A n : n \in ApplyEdits(d, k) <=> n \in ApplyEdits(e, k)
  BY <1>1, <1>2, InEdits
<1>4. LastEdit(d, k) = LastEdit(e, k)
  BY <1>1, <1>2, LastFacts DEF LastEdit
<1> QED BY <1>1, <1>3, <1>4

\* LogAndApply writes a record.
LEMMA AppendedRecord ==
  ASSUME NullIsNoValue, NEW d \in Seq(EditOrPiece), NEW x \in EditRecord,
         NEW e, e = Append(d, x)
  PROVE  /\ e \in Seq(EditOrPiece) /\ Len(e) = Len(d) + 1 /\ e[Len(e)] = x
         /\ Whole(e, Len(e)) # {} /\ LastEdit(e, Len(e)) = x
         /\ ApplyEdits(e, Len(e)) = (ApplyEdits(d, Len(d)) \ x.deleted) \cup x.added
<1>1. /\ e \in Seq(EditOrPiece) /\ Len(e) = Len(d) + 1 /\ e[Len(e)] = x
      /\ \A i \in 1 .. Len(d) : e[i] = d[i]
  BY DEF EditOrPiece
<1>2. x # NULL /\ Len(d) \in Nat
  BY DEF NullIsNoValue
<1>3. Whole(e, Len(e)) = Whole(d, Len(d)) \cup {Len(e)}
  BY <1>1, <1>2 DEF Whole
<1>4. LastEdit(e, Len(e)) = x
  <2>1. Max(Whole(e, Len(e))) = Len(e)
    <3>1. /\ Max(Whole(e, Len(e))) \in Whole(e, Len(e)) /\ Whole(e, Len(e)) \subseteq 1 .. Len(e)
          /\ Len(e) <= Max(Whole(e, Len(e)))
      <4>1. /\ Len(e) \in Nat /\ Len(e) <= Len(e) /\ Len(e) \in Whole(e, Len(e))
            /\ e \in Seq(EditOrPiece)
        BY <1>1, <1>2, <1>3
      <4>2. Whole(e, Len(e)) # {}
        BY ONLY <4>1
      <4> QED BY ONLY <4>1, <4>2, LastFacts, WholeFacts
    <3> QED BY <1>1, <1>2, <3>1
  <2> QED BY <1>1, <2>1 DEF LastEdit
<1>5. \A i \in Whole(d, Len(d)) : e[i] = d[i] /\ i < Len(e) /\ i \in Nat
  BY <1>1, <1>2 DEF Whole
<1>6. ASSUME NEW n
      PROVE  n \in ApplyEdits(e, Len(e)) <=> n \in (ApplyEdits(d, Len(d)) \ x.deleted) \cup x.added
  <2>1. CASE n \in x.added
    <3>1. \A j \in Whole(e, Len(e)) : ~(j > Len(e))
      BY <1>1, <1>2, <1>3, <1>5
    <3> QED BY <1>1, <1>3, <2>1, <3>1, InEdits
  <2>2. CASE n \notin x.added
    <3>1. n \in ApplyEdits(e, Len(e)) <=>
            \E i \in Whole(e, Len(e)) :
              /\ n \in e[i].added
              /\ \A j \in Whole(e, Len(e)) : j > i => n \notin e[j].deleted
      BY ONLY InEdits
    <3>2. n \in ApplyEdits(d, Len(d)) <=>
            \E i \in Whole(d, Len(d)) :
              /\ n \in d[i].added
              /\ \A j \in Whole(d, Len(d)) : j > i => n \notin d[j].deleted
      BY ONLY InEdits
    <3>3. n \notin e[Len(e)].added
      BY <1>1, <2>2
    <3>4. ASSUME NEW i \in Whole(d, Len(d))
          PROVE  (\A j \in Whole(e, Len(e)) : j > i => n \notin e[j].deleted) <=>
                   /\ \A j \in Whole(d, Len(d)) : j > i => n \notin d[j].deleted
                   /\ n \notin x.deleted
      BY ONLY <1>1, <1>3, <1>5, i \in Whole(d, Len(d))
    <3> QED BY ONLY <1>3, <1>5, <2>2, <3>1, <3>2, <3>3, <3>4
  <2> QED BY <2>1, <2>2
<1> QED BY <1>1, <1>3, <1>4, <1>6

\* A failed write leaves a piece of one.
LEMMA AppendedPiece ==
  ASSUME NEW d \in Seq(EditOrPiece), NEW e, e = Append(d, NULL), Whole(d, Len(d)) # {}
  PROVE  /\ e \in Seq(EditOrPiece) /\ Len(e) = Len(d) + 1 /\ e[Len(e)] = NULL
         /\ Whole(e, Len(e)) = Whole(d, Len(d))
         /\ ApplyEdits(e, Len(e)) = ApplyEdits(d, Len(d))
         /\ LastEdit(e, Len(e)) = LastEdit(d, Len(d))
<1>1. /\ e \in Seq(EditOrPiece) /\ Len(e) = Len(d) + 1 /\ e[Len(e)] = NULL
      /\ \A i \in 1 .. Len(d) : e[i] = d[i]
  BY DEF EditOrPiece
<1>2. Len(d) \in Nat
  OBVIOUS
<1>3. Whole(e, Len(e)) = Whole(d, Len(d))
  BY <1>1, <1>2 DEF Whole
<1>4. \A i \in Whole(d, Len(d)) : e[i] = d[i]
  BY <1>1, <1>2 DEF Whole
<1>5. ASSUME NEW n PROVE n \in ApplyEdits(e, Len(e)) <=> n \in ApplyEdits(d, Len(d))
  <2>1. n \in ApplyEdits(e, Len(e)) <=>
          \E i \in Whole(e, Len(e)) :
            /\ n \in e[i].added
            /\ \A j \in Whole(e, Len(e)) : j > i => n \notin e[j].deleted
    BY ONLY InEdits
  <2>2. n \in ApplyEdits(d, Len(d)) <=>
          \E i \in Whole(d, Len(d)) :
            /\ n \in d[i].added
            /\ \A j \in Whole(d, Len(d)) : j > i => n \notin d[j].deleted
    BY ONLY InEdits
  <2> QED BY ONLY <1>3, <1>4, <2>1, <2>2
<1>6. LastEdit(e, Len(e)) = LastEdit(d, Len(d))
  <2>1. Max(Whole(d, Len(d))) \in Whole(d, Len(d))
    BY <1>2, LastFacts
  <2> QED BY ONLY <1>3, <1>4, <2>1 DEF LastEdit
<1> QED BY <1>1, <1>3, <1>5, <1>6

\* The snapshot that begins a manifest.
LEMMA SingleRecord ==
  ASSUME NullIsNoValue, NEW x \in EditRecord, NEW e, e = <<x>>
  PROVE  /\ e \in Seq(EditOrPiece) /\ Len(e) = 1
         /\ Whole(e, 1) # {} /\ LastEdit(e, 1) = x /\ ApplyEdits(e, 1) = x.added
<1>1. e \in Seq(EditOrPiece) /\ Len(e) = 1 /\ e[1] = x /\ x # NULL
  BY DEF EditOrPiece, NullIsNoValue
<1>2. Whole(e, 1) = {1}
  BY <1>1 DEF Whole
<1>3. LastEdit(e, 1) = x
  <2>1. Max(Whole(e, 1)) \in Whole(e, 1)
    <3>1. e \in Seq(EditOrPiece) /\ 1 \in Nat /\ 1 <= Len(e) /\ Whole(e, 1) # {}
      BY <1>1, <1>2
    <3> QED BY ONLY <3>1, LastFacts
  <2> QED BY <1>1, <1>2, <2>1 DEF LastEdit
<1>4. \A n : n \in ApplyEdits(e, 1) <=> n \in x.added
  BY <1>1, <1>2, InEdits
<1> QED BY <1>1, <1>2, <1>3, <1>4

-----------------------------------------------------------------------------
(* Facts about states.                                                     *)

LEMMA ManifestFacts ==
  ASSUME TypeInv, DiskInv
  PROVE  /\ Manifest \in [data : Seq(EditOrPiece), synced : Nat]
         /\ Manifest.synced <= Len(Manifest.data)
         /\ Len(Manifest.data) \in PossibleLengths
         /\ \A k \in PossibleLengths :
              /\ k \in Nat /\ k <= Len(Manifest.data) /\ Whole(Manifest.data, k) # {}
              /\ LastEdit(Manifest.data, k) \in EditRecord
              /\ VersionAt(k) \in SUBSET Nat
<1>1. Manifest \in [data : Seq(EditOrPiece), synced : Nat] /\ Manifest.synced <= Len(Manifest.data)
  BY DEF TypeInv, DiskTypes, DiskInv, HasFiles, Manifest
<1>2. PICK d \in Seq(EditOrPiece) : d = Manifest.data
  BY <1>1
<1>3. /\ Len(Manifest.data) \in PossibleLengths
      /\ \A k \in PossibleLengths : k \in Nat /\ k <= Len(Manifest.data)
  BY <1>1, <1>2 DEF PossibleLengths
<1>4. \A k \in PossibleLengths : Whole(Manifest.data, k) # {}
  BY DEF DiskInv, Described
<1>5. ASSUME NEW k \in PossibleLengths
      PROVE  LastEdit(Manifest.data, k) \in EditRecord /\ VersionAt(k) \in SUBSET Nat
  BY <1>2, <1>3, <1>4, WholeFacts, LastFacts DEF VersionAt
<1> QED BY <1>1, <1>3, <1>4, <1>5

LEMMA LogFacts ==
  ASSUME TypeInv, NEW n \in DOMAIN logs
  PROVE  /\ n \in Nat /\ logs[n] \in [data : Seq(Entry), synced : Nat]
         /\ logs[n].synced <= Len(logs[n].data)
         /\ ToSet(logs[n].data) \subseteq Entry
         /\ SurelyRead(logs[n]) \subseteq Sound(ToSet(logs[n].data))
<1>1. n \in Nat /\ logs[n] \in [data : Seq(Entry), synced : Nat] /\ logs[n].synced <= Len(logs[n].data)
  BY DEF TypeInv, DiskTypes, HasFiles
<1>2. PICK d \in Seq(Entry), s \in Nat : logs[n] = [data |-> d, synced |-> s] /\ s <= Len(d)
  BY <1>1
<1>3. ToSet(d) \subseteq Entry
  BY DEF ToSet
<1>4. SyncedPart([data |-> d, synced |-> s]) \subseteq ToSet(d)
  BY <1>2, PartFacts
<1>5. SurelyRead(logs[n]) = Sound(SyncedPart(logs[n]))
  BY SurelyReadFacts
<1> QED BY <1>1, <1>2, <1>3, <1>4, <1>5 DEF Sound

LEMMA TableFacts ==
  ASSUME TypeInv, NEW n \in DOMAIN tables
  PROVE  n \in Nat /\ tables[n] \in TableFile
BY DEF TypeInv, DiskTypes

LEMMA WriteTableFacts ==
  ASSUME TypeInv, NEW n \in Nat, NEW entries \in SUBSET Entry, NEW synced, synced \in BOOLEAN,
         tables' = WriteTable(n, entries, synced)
  PROVE  /\ DOMAIN tables' = DOMAIN tables \cup {n} /\ DOMAIN tables' \subseteq Nat
         /\ tables' \in [DOMAIN tables' -> TableFile]
         /\ tables'[n] = [data |-> entries, synced |-> synced]
         /\ \A m \in DOMAIN tables \ {n} : tables'[m] = tables[m]
<1>1. tables' = [m \in DOMAIN tables \cup {n} |->
                   IF m = n THEN [data |-> entries, synced |-> synced] ELSE tables[m]]
  BY DEF WriteTable
<1>2. [data |-> entries, synced |-> synced] \in TableFile
  BY DEF TableFile
<1> QED BY <1>1, <1>2 DEF TypeInv, DiskTypes

LEMMA SyncTableFacts ==
  ASSUME TypeInv, NEW n \in DOMAIN tables, tables' = SyncTable(n)
  PROVE  /\ DOMAIN tables' = DOMAIN tables /\ tables' \in [DOMAIN tables' -> TableFile]
         /\ tables'[n].synced
         /\ \A m \in DOMAIN tables : /\ tables'[m].data = tables[m].data
                                     /\ tables[m].synced => tables'[m] = tables[m]
<1>. tables[n] \in TableFile
  BY TableFacts
<1>1. tables' = [tables EXCEPT ![n] = [data |-> tables[n].data, synced |-> TRUE]]
  <2>1. tables' = [tables EXCEPT ![n] = [tables[n] EXCEPT !.synced = TRUE]]
    BY DEF SyncTable
  <2> QED BY <2>1 DEF TableFile
<1>2. [data |-> tables[n].data, synced |-> TRUE] \in TableFile
  BY DEF TableFile
<1>3. DOMAIN tables' = DOMAIN tables
  BY <1>1
<1>4. tables[n].synced => tables'[n] = tables[n]
  BY <1>1 DEF TableFile
<1> QED BY <1>1, <1>2, <1>3, <1>4 DEF TypeInv, DiskTypes

LEMMA KeepTables ==
  ASSUME TypeInv, NEW ns, tables' = Keep(tables, ns)
  PROVE  /\ DOMAIN tables' = DOMAIN tables \cap ns /\ tables' \in [DOMAIN tables' -> TableFile]
         /\ \A n \in DOMAIN tables' : tables'[n] = tables[n]
<1>1. tables' = [n \in DOMAIN tables \cap ns |-> tables[n]]
  BY DEF Keep
<1> QED BY <1>1 DEF TypeInv, DiskTypes

LEMMA NextEntryFacts ==
  ASSUME TypeInv, NEW found \in {"yes", "maybe"}
  PROVE  /\ NextEntry(found) \in Entry /\ NextEntry(found).seq = last_sequence + 1
         /\ NextEntry(found).id = issued + 1 /\ NextEntry(found).found = found
BY DEF NextEntry, Entry, TypeInv, MemoryTypes

LEMMA DataStays ==
  ASSUME NEW t, NEW t2, NEW ns, \A n \in ns : t2[n].data = t[n].data
  PROVE  DataOf(t2, ns) = DataOf(t, ns)
BY DEF DataOf

LEMMA FewerNumbers ==
  ASSUME NEW entries, NumbersAreUnique(entries), NEW some, some \subseteq entries
  PROVE  NumbersAreUnique(some)
BY DEF NumbersAreUnique

\* A manifest that describes a database goes on doing so.
LEMMA DescribedStays ==
  ASSUME NEW edits, NEW k, NEW m, NEW t, NEW l, NEW p, NEW t2, NEW l2, NEW p2,
         Described(edits, k, m, t, l, p),
         \A n \in ApplyEdits(edits, k) : n \in DOMAIN t2 /\ t2[n] = t[n],
         SyncedData(l, LastEdit(edits, k).log) \subseteq SyncedData(l2, LastEdit(edits, k).log),
         p2 \subseteq p \cup Ids(SyncedData(l2, LastEdit(edits, k).log)),
         NumbersAreUnique(DataOf(t, ApplyEdits(edits, k)) \cup LogData(l2, LastEdit(edits, k).log))
  PROVE  Described(edits, k, m, t2, l2, p2)
<1>1. DataOf(t2, ApplyEdits(edits, k)) = DataOf(t, ApplyEdits(edits, k))
  BY DataStays
<1>2. p \subseteq Ids(DataOf(t, ApplyEdits(edits, k))) \cup Ids(SyncedData(l, LastEdit(edits, k).log))
  BY DEF Described
<1>3. Ids(SyncedData(l, LastEdit(edits, k).log)) \subseteq Ids(SyncedData(l2, LastEdit(edits, k).log))
  BY DEF Ids
<1>4. p2 \subseteq Ids(DataOf(t2, ApplyEdits(edits, k))) \cup Ids(SyncedData(l2, LastEdit(edits, k).log))
  BY <1>1, <1>2, <1>3
<1> QED BY <1>1, <1>4 DEF Described

\* The logs a manifest makes DB::Open replay are among those the database has.
LEMMA LogsArePresent ==
  ASSUME TypeInv, NEW first \in Nat, log_number <= first
  PROVE  LogData(logs, first) \subseteq Present
<1>1. \A n \in From(logs, first) : n \in From(logs, log_number)
  BY DEF From, TypeInv, DiskTypes, MemoryTypes, HasFiles
<1> QED BY <1>1 DEF LogData, Present

-----------------------------------------------------------------------------
(* Types.                                                                  *)

LEMMA BoundedSeqs ==
  ASSUME NEW f, NEW n \in Nat, \A i \in 1 .. n : f[i] \in Nat, NEW b \in Nat
  PROVE  \E c \in Nat : b <= c /\ \A i \in 1 .. n : f[i] <= c
<1> DEFINE Above(j, c) == b <= c /\ \A i \in 1 .. j : f[i] <= c
           Unbounded == {j \in 0 .. n : \A c \in Nat : ~Above(j, c)}
<1>1. Unbounded = {}
  <2> SUFFICES ASSUME Unbounded # {} PROVE FALSE
    OBVIOUS
  <2>1. Unbounded \subseteq Nat
    OBVIOUS
  <2>2. PICK j \in Unbounded : \A i \in Unbounded : j <= i
    <3> HIDE DEF Unbounded
    <3> QED BY <2>1, LeastExists
  <2>3. j \in 0 .. n /\ \A c \in Nat : ~Above(j, c)
    BY <2>2
  <2>4. j # 0
    <3>1. Above(0, b)
      OBVIOUS
    <3> QED BY <2>3, <3>1
  <2>5. j - 1 \in 0 .. n /\ j \in 1 .. n /\ ~(j <= j - 1)
    BY <2>3, <2>4
  <2>6. PICK c \in Nat : Above(j - 1, c)
    BY <2>2, <2>5
  <2>7. f[j] \in Nat /\ c + f[j] \in Nat /\ c <= c + f[j] /\ f[j] <= c + f[j]
    BY <2>5
  <2>8. ASSUME NEW i \in 1 .. j PROVE f[i] <= c + f[j]
    <3>1. CASE i = j
      BY <2>7, <3>1
    <3>2. CASE i # j
      <4>1. i \in 1 .. (j - 1) /\ i \in 1 .. n
        BY <2>5, <3>2
      <4>2. f[i] <= c /\ f[i] \in Nat
        BY <2>6, <4>1
      <4> QED BY <2>7, <4>2
    <3> QED BY <3>1, <3>2
  <2>9. b <= c + f[j]
    BY <2>6, <2>7
  <2>10. Above(j, c + f[j])
    BY <2>8, <2>9
  <2> QED BY <2>3, <2>7, <2>10
<1>2. n \notin Unbounded /\ n \in 0 .. n
  BY <1>1
<1> QED BY <1>2

LEMMA BiggestSeq ==
  ASSUME NEW d \in Seq(Entry), NEW read, read \subseteq ToSet(d), NEW b \in Nat
  PROVE  LET seqs == {b} \cup {e.seq : e \in read}
         IN Max(seqs) \in Nat /\ \A s \in seqs : s <= Max(seqs)
<1>1. \A i \in 1 .. Len(d) : d[i].seq \in Nat
  <2>1. \A i \in 1 .. Len(d) : d[i] \in Entry
    OBVIOUS
  <2> QED BY <2>1 DEF Entry
<1>2. PICK f : f = [i \in 1 .. Len(d) |-> d[i].seq]
  OBVIOUS
<1>3. PICK c \in Nat : b <= c /\ \A i \in 1 .. Len(d) : f[i] <= c
  <2>1. Len(d) \in Nat /\ \A i \in 1 .. Len(d) : f[i] \in Nat
    BY <1>1, <1>2
  <2> QED BY <2>1, BoundedSeqs
<1>4. \A i \in 1 .. Len(d) : d[i].seq <= c
  BY <1>2, <1>3
<1>5. ToSet(d) = {d[i] : i \in 1 .. Len(d)}
  BY DEF ToSet
<1>6. PICK seqs : seqs = {b} \cup {e.seq : e \in read}
  OBVIOUS
<1>7. seqs \subseteq Nat /\ seqs # {} /\ \A s \in seqs : s <= c
  BY <1>1, <1>3, <1>4, <1>5, <1>6
<1>8. Max(seqs) \in seqs /\ \A s \in seqs : s <= Max(seqs)
  BY <1>7, MaxOfNumbers
<1> QED BY <1>6, <1>7, <1>8

LEMMA LargerOf ==
  ASSUME NEW a \in Nat, NEW b \in Nat
  PROVE  Max({a, b}) \in Nat /\ a <= Max({a, b}) /\ b <= Max({a, b})
<1>1. PICK s : s = {a, b}
  OBVIOUS
<1>2. s \subseteq Nat /\ s # {} /\ a + b \in Nat /\ \A x \in s : x <= a + b
  BY <1>1
<1>3. Max(s) \in s /\ \A x \in s : x <= Max(s)
  BY <1>2, MaxOfNumbers
<1> QED BY <1>1, <1>2, <1>3

LEMMA TypeUp ==
  ASSUME NullIsNoValue, TypeInv, FilesInv,
         \/ \E sync \in BOOLEAN : Write(sync) \/ FailWrite(sync)
         \/ MakeRoomForWrite \/ NewInternalIterator \/ CleanupIteratorState
         \/ BeginFlush \/ EndFlush \/ BeginMerge \/ EndMerge
  PROVE  TypeInv'
<1>1. ASSUME NEW sync \in BOOLEAN, Write(sync) \/ FailWrite(sync) PROVE TypeInv'
  <2>1. PICK found \in {"yes", "maybe"} :
          \/ Write(sync) /\ found = Readable
          \/ FailWrite(sync) /\ found = IF sync THEN Readable ELSE "maybe"
    <3>1. Readable \in {"yes", "maybe"}
      BY DEF Readable
    <3> QED BY <1>1, <3>1
  <2>2. PICK e \in Entry : e = NextEntry(found)
    BY NextEntryFacts
  <2>3. HasFiles(logs, Entry) /\ logfile_number \in DOMAIN logs
    BY <1>1 DEF TypeInv, DiskTypes, FilesInv, OpenInv, NumbersInv, Write, FailWrite
  <2>4. PICK appended : appended = AppendTo(logs, logfile_number, e)
    OBVIOUS
  <2>5. HasFiles(AppendTo(logs, logfile_number, e), Entry)
    BY <2>3, AppendFacts
  <2>6. DOMAIN appended = DOMAIN logs
    BY <2>4 DEF AppendTo
  <2>7. HasFiles(appended, Entry) /\ logfile_number \in DOMAIN appended
    BY <2>3, <2>4, <2>5, <2>6
  <2>8. HasFiles(SyncFile(appended, logfile_number), Entry)
    BY <2>7, SyncFacts
  <2>9. HasFiles(logs', Entry)
    BY <2>1, <2>2, <2>4, <2>7, <2>8 DEF Write, FailWrite
  <2>10. DiskTypes'
    BY <1>1, <2>9 DEF TypeInv, DiskTypes, Write, FailWrite
  <2>11. MemoryTypes'
    <3>1. /\ mem' \in SUBSET Entry /\ last_sequence' \in Nat /\ issued' \in Nat
          /\ promised' \in SUBSET Nat /\ bg_error' \in BOOLEAN
      <4>1. CASE Write(sync) /\ found = Readable
        BY <2>2, <4>1 DEF TypeInv, MemoryTypes, Write, background
      <4>2. CASE FailWrite(sync)
        BY <4>2 DEF TypeInv, MemoryTypes, FailWrite
      <4> QED BY <2>1, <4>1, <4>2
    <3>2. UNCHANGED <<phase, imm, logfile_number, log_number, manifest_file_number,
                      next_file_number, version, pinned, pending_outputs, flush, merge, edit,
                      replay>>
      BY <2>1 DEF Write, FailWrite, background
    <3> QED BY <3>1, <3>2 DEF TypeInv, MemoryTypes
  <2> QED BY <2>10, <2>11 DEF TypeInv
<1>2. CASE MakeRoomForWrite
  <2>1. HasFiles(logs, Entry) /\ next_file_number \in Nat /\ <<>> \in Seq(Entry)
    BY DEF TypeInv, DiskTypes, MemoryTypes
  <2>2. HasFiles(logs', Entry)
    BY <1>2, <2>1, CreateFacts DEF MakeRoomForWrite
  <2>3. DiskTypes'
    BY <1>2, <2>2 DEF TypeInv, DiskTypes, MakeRoomForWrite
  <2>4. MemoryTypes'
    BY <1>2 DEF TypeInv, MemoryTypes, MakeRoomForWrite, background, history
  <2> QED BY <2>3, <2>4 DEF TypeInv
<1>3. CASE NewInternalIterator
  BY <1>3 DEF TypeInv, DiskTypes, MemoryTypes, NewInternalIterator, directory, numbers, background, history
<1>4. CASE CleanupIteratorState
  BY <1>4 DEF TypeInv, DiskTypes, MemoryTypes, CleanupIteratorState, directory, numbers, background, history
<1>5. CASE BeginFlush
  <2>1. imm \in SUBSET Entry /\ next_file_number \in Nat /\ FALSE \in BOOLEAN
    BY <1>5 DEF TypeInv, MemoryTypes, BeginFlush
  <2>2. DOMAIN tables' \subseteq Nat /\ tables' \in [DOMAIN tables' -> TableFile]
    BY <1>5, <2>1, WriteTableFacts DEF BeginFlush
  <2>3. DiskTypes'
    BY <1>5, <2>2 DEF TypeInv, DiskTypes, BeginFlush
  <2>4. MemoryTypes'
    <3>1. flush' \in Flushes
      BY <1>5, <2>1 DEF BeginFlush, Flushes, Steps
    <3>2. next_file_number' \in Nat /\ pending_outputs' \in SUBSET Nat
      BY <1>5, <2>1 DEF TypeInv, MemoryTypes, BeginFlush
    <3> QED BY <1>5, <3>1, <3>2 DEF TypeInv, MemoryTypes, BeginFlush, history
  <2> QED BY <2>3, <2>4 DEF TypeInv
<1>6. CASE EndFlush
  <2>1. flush \in Flushes /\ flush.number \in DOMAIN tables /\ flush.number \in Nat
    BY <1>6 DEF TypeInv, MemoryTypes, EndFlush, Flushes, FilesInv, OpenInv, WorkInv
  <2>2. DOMAIN tables' \subseteq Nat /\ tables' \in [DOMAIN tables' -> TableFile]
    <3>1. tables' = SyncTable(flush.number)
      BY <1>6 DEF EndFlush
    <3>2. DOMAIN tables \subseteq Nat
      BY DEF TypeInv, DiskTypes
    <3> QED BY <2>1, <3>1, <3>2, SyncTableFacts
  <2>3. DiskTypes'
    BY <1>6, <2>2 DEF TypeInv, DiskTypes, EndFlush
  <2>4. MemoryTypes'
    <3>1. flush' \in Flushes
      BY <1>6, <2>1 DEF EndFlush, Flushes, Steps
    <3>2. edit' \in EditRecord
      BY <1>6, <2>1 DEF EndFlush, Edit, EditRecord, TypeInv, MemoryTypes
    <3> QED BY <1>6, <3>1, <3>2 DEF TypeInv, MemoryTypes, EndFlush, numbers, history
  <2> QED BY <2>3, <2>4 DEF TypeInv
<1>7. CASE BeginMerge
  <2>1. PICK inputs \in SUBSET version :
          /\ merge' = [number |-> next_file_number, step |-> "build", inputs |-> inputs]
          /\ tables' = WriteTable(next_file_number, TableEntries(inputs), FALSE)
    BY <1>7 DEF BeginMerge
  <2>2. next_file_number \in Nat /\ FALSE \in BOOLEAN /\ inputs \in SUBSET Nat
    BY <2>1 DEF TypeInv, MemoryTypes
  <2>3. TableEntries(inputs) \in SUBSET Entry
    <3>1. \A n \in inputs : n \in DOMAIN tables
      BY <1>7, <2>1 DEF BeginMerge, FilesInv, OpenInv, HeldInv, Complete
    <3>2. \A n \in inputs : tables[n].data \in SUBSET Entry
      BY <3>1, TableFacts DEF TableFile
    <3> QED BY <3>2 DEF TableEntries
  <2>4. DOMAIN tables' \subseteq Nat /\ tables' \in [DOMAIN tables' -> TableFile]
    BY <2>1, <2>2, <2>3, WriteTableFacts
  <2>5. DiskTypes'
    BY <1>7, <2>4 DEF TypeInv, DiskTypes, BeginMerge
  <2>6. MemoryTypes'
    <3>1. merge' \in Merges
      BY <2>1, <2>2 DEF Merges, Steps
    <3> QED BY <1>7, <2>2, <3>1 DEF TypeInv, MemoryTypes, BeginMerge, history
  <2> QED BY <2>5, <2>6 DEF TypeInv
<1>8. CASE EndMerge
  <2>1. merge \in Merges /\ merge.number \in DOMAIN tables /\ merge.number \in Nat
    BY <1>8 DEF TypeInv, MemoryTypes, EndMerge, Merges, FilesInv, OpenInv, WorkInv
  <2>2. DOMAIN tables' \subseteq Nat /\ tables' \in [DOMAIN tables' -> TableFile]
    <3>1. tables' = SyncTable(merge.number)
      BY <1>8 DEF EndMerge
    <3>2. DOMAIN tables \subseteq Nat
      BY DEF TypeInv, DiskTypes
    <3> QED BY <2>1, <3>1, <3>2, SyncTableFacts
  <2>3. DiskTypes'
    BY <1>8, <2>2 DEF TypeInv, DiskTypes, EndMerge
  <2>4. MemoryTypes'
    <3>1. merge' \in Merges
      BY <1>8, <2>1 DEF EndMerge, Merges, Steps
    <3>2. edit' \in EditRecord
      BY <1>8, <2>1 DEF EndMerge, Edit, EditRecord, TypeInv, MemoryTypes, Merges
    <3> QED BY <1>8, <3>1, <3>2 DEF TypeInv, MemoryTypes, EndMerge, numbers, history
  <2> QED BY <2>3, <2>4 DEF TypeInv
<1> QED BY <1>1, <1>2, <1>3, <1>4, <1>5, <1>6, <1>7, <1>8

LEMMA TypeBack ==
  ASSUME NullIsNoValue, TypeInv, FilesInv,
         AppendEdit \/ SyncEdit \/ FailEdit \/ InstallEdit \/ Crash
  PROVE  TypeInv'
<1>1. HasFiles(manifests, EditOrPiece) /\ current \in DOMAIN manifests /\ HasFiles(logs, Entry)
  BY DEF TypeInv, DiskTypes, FilesInv, DiskInv
<1>2. CASE AppendEdit
  <2>1. edit \in EditOrPiece
    BY <1>2 DEF TypeInv, MemoryTypes, EditOrPiece
  <2>2. HasFiles(manifests', EditOrPiece)
    BY <1>1, <1>2, <2>1, AppendFacts DEF AppendEdit
  <2>3. DiskTypes'
    BY <1>2, <2>2 DEF TypeInv, DiskTypes, AppendEdit
  <2>4. MemoryTypes'
    BY <1>2 DEF TypeInv, MemoryTypes, AppendEdit, numbers, background, history
  <2> QED BY <2>3, <2>4 DEF TypeInv
<1>3. CASE SyncEdit
  <2>1. HasFiles(manifests', EditOrPiece)
    BY <1>1, <1>3, SyncFacts DEF SyncEdit
  <2>2. DiskTypes'
    BY <1>3, <2>1 DEF TypeInv, DiskTypes, SyncEdit
  <2>3. MemoryTypes'
    BY <1>3 DEF TypeInv, MemoryTypes, SyncEdit, numbers, background, history
  <2> QED BY <2>2, <2>3 DEF TypeInv
<1>4. ASSUME EndBackgroundWork
      PROVE  /\ flush' \in Flushes \cup {NULL} /\ merge' \in Merges \cup {NULL} /\ edit' = NULL
             /\ pending_outputs' \in SUBSET Nat
  BY <1>4 DEF EndBackgroundWork, TypeInv, MemoryTypes
<1>5. CASE FailEdit
  <2>1. NULL \in EditOrPiece
    BY DEF EditOrPiece
  <2>2. HasFiles(AppendTo(manifests, current, NULL), EditOrPiece)
    BY <1>1, <2>1, AppendFacts
  <2>3. HasFiles(manifests', EditOrPiece)
    BY <1>1, <1>5, <2>2 DEF FailEdit
  <2>4. DiskTypes'
    BY <1>5, <2>3 DEF TypeInv, DiskTypes, FailEdit
  <2>5. MemoryTypes'
    BY <1>4, <1>5 DEF TypeInv, MemoryTypes, FailEdit, numbers
  <2> QED BY <2>4, <2>5 DEF TypeInv
<1>6. CASE InstallEdit
  <2>1. edit \in EditRecord
    BY <1>6 DEF TypeInv, MemoryTypes, InstallEdit
  <2>2. DiskTypes'
    <3>1. CASE bg_error
      BY <1>6, <3>1 DEF TypeInv, DiskTypes, InstallEdit
    <3>2. CASE ~bg_error
      <4>1. DeleteObsoleteFiles(version', log_number', pending_outputs') /\ current' = current
        BY <1>6, <3>2 DEF InstallEdit
      <4>2. HasFiles(logs', Entry) /\ HasFiles(manifests', EditOrPiece)
        BY <1>1, <4>1, KeepFacts DEF DeleteObsoleteFiles
      <4>3. /\ DOMAIN tables' \subseteq DOMAIN tables
            /\ tables' \in [DOMAIN tables' -> TableFile]
        BY <4>1, KeepTables DEF DeleteObsoleteFiles
      <4> QED BY <4>1, <4>2, <4>3 DEF TypeInv, DiskTypes
    <3> QED BY <3>1, <3>2
  <2>3. MemoryTypes'
    <3>1. version' \in SUBSET Nat /\ log_number' \in Nat /\ imm' \in (SUBSET Entry) \cup {NULL}
      BY <1>6, <2>1 DEF TypeInv, MemoryTypes, InstallEdit, EditRecord
    <3> QED BY <1>4, <1>6, <3>1 DEF TypeInv, MemoryTypes, InstallEdit, history
  <2> QED BY <2>2, <2>3 DEF TypeInv
<1>7. CASE Crash
  <2>1. HasFiles(logs', Entry) /\ HasFiles(manifests', EditOrPiece)
    BY <1>1, <1>7, SurvivorsFacts DEF Crash
  <2>2. /\ DOMAIN tables' \subseteq Nat /\ tables' \in [DOMAIN tables' -> TableFile]
    <3>1. CASE tables' = tables
      BY <3>1 DEF TypeInv, DiskTypes
    <3>2. CASE tables' = [n \in DOMAIN tables |-> IF tables[n].synced THEN tables[n]
                                                  ELSE [data |-> {}, synced |-> FALSE]]
      <4>1. [data |-> {}, synced |-> FALSE] \in TableFile
        BY DEF TableFile
      <4> QED BY <3>2, <4>1 DEF TypeInv, DiskTypes
    <3> QED BY <1>7, <3>1, <3>2 DEF Crash
  <2>3. DiskTypes'
    BY <1>7, <2>1, <2>2 DEF TypeInv, DiskTypes, Crash
  <2>4. MemoryTypes'
    BY <1>7 DEF TypeInv, MemoryTypes, Crash, numbers, Phases
  <2> QED BY <2>3, <2>4 DEF TypeInv
<1> QED BY <1>2, <1>3, <1>5, <1>6, <1>7

LEMMA TypeOpen ==
  ASSUME NullIsNoValue, TypeInv, FilesInv, Open
  PROVE  TypeInv'
<1> USE DEF TypeInv
<1>1. HasFiles(manifests, EditOrPiece) /\ current \in DOMAIN manifests /\ HasFiles(logs, Entry)
  BY DEF DiskTypes, FilesInv, DiskInv
<1>2. CASE Recover
  <2>1. DiskTypes'
    BY <1>2 DEF DiskTypes, Recover, directory
  <2>2. MemoryTypes'
    <3>1. CASE phase' = "corrupt" /\ UNCHANGED <<version, edit, replay, numbers>>
      BY <1>2, <3>1 DEF MemoryTypes, Recover, numbers, history, Phases
    <3>2. CASE LET edits == Manifest.data
                   last == LastEdit(edits, Len(edits))
               IN /\ Whole(edits, Len(edits)) # {}
                  /\ phase' = "replay"
                  /\ version' = ApplyEdits(edits, Len(edits))
                  /\ edit' = [last EXCEPT !.added = {}, !.deleted = {}]
                  /\ log_number' = last.log
                  /\ manifest_file_number' = last.next
                  /\ next_file_number' = last.next + 1
                  /\ last_sequence' = last.last
                  /\ replay' = {n \in DOMAIN logs : n >= last.log}
                  /\ UNCHANGED logfile_number
      <4>1. PICK last, v : /\ last = LastEdit(Manifest.data, Len(Manifest.data))
                           /\ v = VersionAt(Len(Manifest.data))
        OBVIOUS
      <4>2. last \in EditRecord /\ v \in SUBSET Nat
        BY <4>1, ManifestFacts DEF FilesInv
      <4>3. /\ version' = v /\ edit' = [last EXCEPT !.added = {}, !.deleted = {}]
            /\ log_number' = last.log /\ manifest_file_number' = last.next
            /\ next_file_number' = last.next + 1 /\ last_sequence' = last.last
            /\ replay' = {n \in DOMAIN logs : n >= last.log} /\ phase' = "replay"
        BY <3>2, <4>1 DEF VersionAt
      <4>4. edit' \in EditRecord
        BY <4>2, <4>3 DEF EditRecord
      <4>5. /\ log_number' \in Nat /\ manifest_file_number' \in Nat /\ next_file_number' \in Nat
            /\ last_sequence' \in Nat
        BY <4>2, <4>3 DEF EditRecord
      <4>6. replay' \in SUBSET Nat
        BY <1>1, <4>3 DEF HasFiles
      <4> QED BY <1>2, <3>2, <4>2, <4>3, <4>4, <4>5, <4>6
              DEF MemoryTypes, Recover, history, Phases
    <3> QED BY <1>2, <3>1, <3>2 DEF Recover
  <2> QED BY <2>1, <2>2
<1>3. CASE RecoverLogFile
  <2>1. PICK n, d : n = Min(replay) /\ d = logs[n].data
    OBVIOUS
  <2>2. replay \subseteq DOMAIN logs /\ edit \in EditRecord
    BY <1>3 DEF RecoverLogFile, FilesInv, ReplayInv, From, MemoryTypes
  <2>3. n \in DOMAIN logs /\ n \in Nat
    BY <1>1, <1>3, <2>1, <2>2, MinOfNumbers DEF RecoverLogFile, HasFiles
  <2>4. d \in Seq(Entry) /\ ToSet(d) \in SUBSET Entry
    BY <2>1, <2>3, LogFacts
  <2>5. PICK number \in Nat : number = next_file_number
    BY DEF MemoryTypes
  <2>6. PICK read \in Readings(d), next \in Nat :
          /\ next = IF read = {} THEN number ELSE number + 1
          /\ replay' = replay \ {n}
          /\ IF read = {} THEN UNCHANGED <<edit, tables>>
             ELSE /\ tables' = WriteTable(number, read, TRUE)
                  /\ edit' = [edit EXCEPT !.added = @ \cup {number}]
          /\ next_file_number' = Max({next, n + 1})
          /\ last_sequence' = Max({last_sequence} \cup {e.seq : e \in read})
    <3>1. PICK read \in Readings(d) :
            /\ replay' = replay \ {n}
            /\ IF read = {} THEN UNCHANGED <<edit, tables>>
               ELSE /\ tables' = WriteTable(number, read, TRUE)
                    /\ edit' = [edit EXCEPT !.added = @ \cup {number}]
            /\ next_file_number' = Max({IF read = {} THEN number ELSE number + 1, n + 1})
            /\ last_sequence' = Max({last_sequence} \cup {e.seq : e \in read})
      BY ONLY <1>3, <2>1, <2>5, Zenon DEF RecoverLogFile
    <3>2. (IF read = {} THEN number ELSE number + 1) \in Nat
      OBVIOUS
    <3> QED BY ONLY <3>1, <3>2, Zenon
  <2>7. read \in SUBSET Entry /\ read \subseteq ToSet(d)
    BY <2>4, <2>6 DEF Readings
  <2>8. next_file_number' \in Nat
    <3>1. n + 1 \in Nat
      BY <2>3
    <3> QED BY <2>6, <3>1, LargerOf
  <2>9. last_sequence' \in Nat
    <3>1. PICK b \in Nat : b = last_sequence
      BY DEF MemoryTypes
    <3> QED BY <2>4, <2>6, <2>7, <3>1, BiggestSeq
  <2>10. DOMAIN tables' \subseteq Nat /\ tables' \in [DOMAIN tables' -> TableFile]
    <3>1. CASE read = {}
      BY <2>6, <3>1 DEF DiskTypes
    <3>2. CASE read # {}
      <4>1. tables' = WriteTable(number, read, TRUE) /\ TRUE \in BOOLEAN
        BY <2>6, <3>2
      <4> QED BY <2>5, <2>7, <4>1, WriteTableFacts
    <3> QED BY <3>1, <3>2
  <2>11. edit' \in EditRecord
    <3>1. edit.added \cup {number} \in SUBSET Nat
      BY <2>2, <2>5 DEF EditRecord
    <3> QED BY <2>2, <2>6, <3>1 DEF EditRecord
  <2>12. replay' \in SUBSET Nat
    BY <2>6 DEF MemoryTypes
  <2>13. DiskTypes'
    BY <1>3, <2>10 DEF DiskTypes, RecoverLogFile
  <2>14. MemoryTypes'
    BY <1>3, <2>8, <2>9, <2>11, <2>12 DEF MemoryTypes, RecoverLogFile, history
  <2> QED BY <2>13, <2>14
<1>4. CASE OpenLog
  <2>1. next_file_number \in Nat /\ <<>> \in Seq(Entry)
    BY DEF MemoryTypes
  <2>2. HasFiles(logs', Entry)
    BY <1>1, <1>4, <2>1, CreateFacts DEF OpenLog
  <2>3. DiskTypes'
    BY <1>4, <2>2 DEF DiskTypes, OpenLog
  <2>4. MemoryTypes'
    BY <1>4 DEF MemoryTypes, OpenLog, background, history, Phases
  <2> QED BY <2>3, <2>4
<1>5. CASE WriteSnapshot
  <2>1. edit \in EditRecord
    BY <1>5 DEF WriteSnapshot, FilesInv, SnapshotInv, SnapshotReady, Snapshotting, MemoryTypes
  <2>2. edit' \in EditRecord
    BY <1>5, <2>1 DEF WriteSnapshot, Edit, EditRecord, MemoryTypes
  <2>3. PICK x : x = [edit' EXCEPT !.added = version \cup @]
    OBVIOUS
  <2>4. x \in EditOrPiece
    BY <2>2, <2>3 DEF EditRecord, EditOrPiece, MemoryTypes
  <2>5. <<x>> \in Seq(EditOrPiece) /\ manifest_file_number \in Nat
    BY <2>4 DEF MemoryTypes
  <2>6. manifests' = Create(manifests, manifest_file_number, <<x>>)
    BY <1>5, <2>3 DEF WriteSnapshot
  <2>7. HasFiles(manifests', EditOrPiece)
    BY <1>1, <2>5, <2>6, CreateFacts
  <2>8. DiskTypes'
    BY <1>5, <2>7 DEF DiskTypes, WriteSnapshot
  <2>9. MemoryTypes'
    BY <1>5, <2>2 DEF MemoryTypes, WriteSnapshot, numbers, history, Phases
  <2> QED BY <2>8, <2>9
<1>6. CASE SyncNewManifest
  <2>1. manifest_file_number \in DOMAIN manifests
    BY <1>6 DEF SyncNewManifest, FilesInv, SnapshotInv, SnapshotWritten, Snapshotting
  <2>2. HasFiles(manifests', EditOrPiece)
    BY <1>1, <1>6, <2>1, SyncFacts DEF SyncNewManifest
  <2>3. DiskTypes'
    BY <1>6, <2>2 DEF DiskTypes, SyncNewManifest
  <2>4. MemoryTypes'
    BY <1>6 DEF MemoryTypes, SyncNewManifest, numbers, background, history, Phases
  <2> QED BY <2>3, <2>4
<1>7. CASE SetCurrentFile
  BY <1>7 DEF DiskTypes, MemoryTypes, SetCurrentFile, numbers, background, history, Phases
<1>8. CASE OpenInstall
  <2>1. edit \in EditRecord
    BY <1>8 DEF OpenInstall, FilesInv, SnapshotInv, SnapshotReady, Snapshotting, MemoryTypes
  <2>2. DeleteObsoleteFiles(version', log_number', {}) /\ current' = current
    BY <1>8 DEF OpenInstall
  <2>3. HasFiles(logs', Entry) /\ HasFiles(manifests', EditOrPiece)
    BY <1>1, <2>2, KeepFacts DEF DeleteObsoleteFiles
  <2>4. DOMAIN tables' \subseteq DOMAIN tables /\ tables' \in [DOMAIN tables' -> TableFile]
    BY <2>2, KeepTables DEF DeleteObsoleteFiles
  <2>5. DiskTypes'
    BY <2>2, <2>3, <2>4 DEF DiskTypes
  <2>6. MemoryTypes'
    <3>1. version' \in SUBSET Nat /\ log_number' \in Nat
      BY <1>8, <2>1 DEF MemoryTypes, OpenInstall, EditRecord
    <3> QED BY <1>8, <3>1 DEF MemoryTypes, OpenInstall, history, Phases
  <2> QED BY <2>5, <2>6
<1>9. CASE OpenFails
  <2>1. HasFiles(manifests', EditOrPiece)
    BY <1>1, <1>9, KeepFacts DEF OpenFails
  <2>2. DiskTypes'
    BY <1>9, <2>1 DEF DiskTypes, OpenFails
  <2>3. MemoryTypes'
    BY <1>9 DEF MemoryTypes, OpenFails, numbers, Phases
  <2> QED BY <2>2, <2>3
<1> QED BY <1>2, <1>3, <1>4, <1>5, <1>6, <1>7, <1>8, <1>9 DEF Open

-----------------------------------------------------------------------------
(* Writers and readers.                                                    *)

LEMMA IdsGrow ==
  ASSUME NEW entries, NEW some, some \subseteq entries
  PROVE  Ids(some) \subseteq Ids(entries)
BY DEF Ids

LEMMA SyncedGrows ==
  ASSUME NEW l, NEW l2, NEW first,
         \A n \in From(l, first) : n \in From(l2, first) /\ SurelyRead(l[n]) \subseteq SurelyRead(l2[n])
  PROVE  SyncedData(l, first) \subseteq SyncedData(l2, first)
BY DEF SyncedData

LEMMA LogAppended ==
  ASSUME NEW files, HasFiles(files, Entry), NEW n \in DOMAIN files, NEW e \in Entry, NEW sync,
         sync \in BOOLEAN,
         NEW after, after = IF sync THEN SyncFile(AppendTo(files, n, e), n) ELSE AppendTo(files, n, e)
  PROVE  /\ DOMAIN after = DOMAIN files /\ \A m \in DOMAIN files \ {n} : after[m] = files[m]
         /\ ToSet(after[n].data) = ToSet(files[n].data) \cup {e}
         /\ SurelyRead(files[n]) \subseteq SurelyRead(after[n])
         /\ sync /\ e.found = "yes" => e \in SurelyRead(after[n])
<1>1. PICK d \in Seq(Entry), s \in Nat : files[n] = [data |-> d, synced |-> s] /\ s <= Len(d)
  <2>1. files[n] \in [data : Seq(Entry), synced : Nat] /\ files[n].synced <= Len(files[n].data)
    BY DEF HasFiles
  <2> QED BY <2>1
<1>2. PICK longer \in Seq(Entry) : longer = Append(d, e)
  <2>1. d \in Seq(Entry) /\ e \in Entry
    BY <1>1
  <2>2. Append(d, e) \in Seq(Entry)
    BY ONLY <2>1
  <2> QED BY <2>2
<1>3. PICK appended : appended = AppendTo(files, n, e)
  OBVIOUS
<1>4. /\ HasFiles(appended, Entry) /\ DOMAIN appended = DOMAIN files
      /\ appended[n] = [data |-> longer, synced |-> s]
      /\ \A m \in DOMAIN files \ {n} : appended[m] = files[m]
  BY <1>1, <1>2, <1>3, AppendFacts
<1>5. PICK synced : synced = SyncFile(appended, n)
  OBVIOUS
<1>6. /\ DOMAIN synced = DOMAIN files
      /\ synced[n] = [data |-> longer, synced |-> Len(longer)]
      /\ \A m \in DOMAIN files \ {n} : synced[m] = files[m]
  <2>1. n \in DOMAIN appended
    BY <1>4
  <2>2. /\ DOMAIN synced = DOMAIN appended
        /\ synced[n] = [data |-> appended[n].data, synced |-> Len(appended[n].data)]
        /\ \A m \in DOMAIN appended \ {n} : synced[m] = appended[m]
    BY <1>4, <1>5, <2>1, SyncFacts
  <2> QED BY <1>4, <2>2
<1>7. /\ SyncedPart([data |-> longer, synced |-> s]) = SyncedPart([data |-> d, synced |-> s])
      /\ ToSet(longer) = ToSet(d) \cup {e}
      /\ SyncedPart([data |-> d, synced |-> s]) \subseteq ToSet(d)
  <2>1. /\ SyncedPart([data |-> d, synced |-> s]) \subseteq ToSet(d)
        /\ SyncedPart([data |-> Append(d, e), synced |-> s]) = SyncedPart([data |-> d, synced |-> s])
        /\ ToSet(Append(d, e)) = ToSet(d) \cup {e}
    <3>1. d \in Seq(Entry) /\ e \in Entry /\ s \in Nat /\ s <= Len(d)
      BY <1>1
    <3>2. \A x \in Entry : /\ SyncedPart([data |-> Append(d, x), synced |-> s])
                                = SyncedPart([data |-> d, synced |-> s])
                           /\ ToSet(Append(d, x)) = ToSet(d) \cup {x}
      BY ONLY <3>1, PartFacts
    <3>3. SyncedPart([data |-> d, synced |-> s]) \subseteq ToSet(d)
      BY ONLY <3>1, PartFacts
    <3> QED BY ONLY <3>1, <3>2, <3>3
  <2> QED BY <1>2, <2>1
<1>8. SyncedPart([data |-> longer, synced |-> Len(longer)]) = ToSet(longer)
  <2>1. Len(longer) \in Nat /\ Len(longer) <= Len(longer)
    OBVIOUS
  <2> QED BY <2>1, PartFacts
<1>9. after = IF sync THEN synced ELSE appended
  BY <1>3, <1>5
<1>10. /\ DOMAIN after = DOMAIN files /\ \A m \in DOMAIN files \ {n} : after[m] = files[m]
       /\ ToSet(after[n].data) = ToSet(files[n].data) \cup {e}
       /\ SyncedPart(files[n]) \subseteq SyncedPart(after[n])
       /\ sync => e \in SyncedPart(after[n])
  <2>1. CASE sync
    BY <1>1, <1>6, <1>7, <1>8, <1>9, <2>1
  <2>2. CASE ~sync
    BY <1>1, <1>4, <1>7, <1>9, <2>2
  <2> QED BY <2>1, <2>2
<1> QED BY <1>10, SurelyReadFacts DEF Sound

LEMMA SameManifest ==
  ASSUME UNCHANGED <<manifests, current>>
  PROVE  /\ Manifest' = Manifest /\ PossibleLengths' = PossibleLengths
         /\ edit' = edit => Appended' = Appended
BY DEF Manifest, PossibleLengths, Appended

LEMMA DiskStays ==
  ASSUME DiskInv, UNCHANGED <<manifests, current>>,
         \A k \in PossibleLengths : Described(Manifest.data, k, current, tables', logs', promised')
  PROVE  DiskInv'
BY SameManifest DEF DiskInv

\* A write, also one that fails, adds one record to the log, with the next number.
AddsRecord(e, sync) ==
  /\ phase = "up" /\ phase' = "up"
  /\ e.seq = last_sequence + 1
  /\ logs' = IF sync THEN SyncFile(AppendTo(logs, logfile_number, e), logfile_number)
                     ELSE AppendTo(logs, logfile_number, e)
  /\ mem' = mem \/ mem' = mem \cup {e}
  /\ \/ promised' = promised
     \/ /\ promised' = promised \cup {e.id}
        /\ sync /\ e.found = "yes" /\ mem' = mem \cup {e}
  /\ last_sequence' = last_sequence + 1
  /\ bg_error => bg_error'
  /\ UNCHANGED <<tables, manifests, current, imm, logfile_number, log_number,
                 manifest_file_number, next_file_number, version, pinned, flush, merge, edit,
                 pending_outputs>>

LEMMA WriteAddsRecord ==
  ASSUME TypeInv, NEW sync \in BOOLEAN, Write(sync) \/ FailWrite(sync)
  PROVE  \E e \in Entry, synced \in BOOLEAN : AddsRecord(e, synced)
<1>1. Readable \in {"yes", "maybe"} /\ (Readable = "yes" <=> LogIsSound)
  BY DEF Readable
<1>2. CASE Write(sync)
  <2>1. PICK e \in Entry : /\ e = NextEntry(Readable) /\ e.seq = last_sequence + 1
                          /\ e.id = issued + 1 /\ e.found = Readable
    BY <1>1, NextEntryFacts
  <2>2. AddsRecord(e, sync)
    BY <1>1, <1>2, <2>1 DEF Write, AddsRecord, background
  <2> QED BY <2>2
<1>3. CASE FailWrite(sync)
  <2>1. PICK found \in {"yes", "maybe"} : found = IF sync THEN Readable ELSE "maybe"
    BY <1>1
  <2>2. PICK e \in Entry : e = NextEntry(found) /\ e.seq = last_sequence + 1
    BY NextEntryFacts
  <2>3. AddsRecord(e, FALSE)
    BY <1>3, <2>1, <2>2 DEF FailWrite, AddsRecord
  <2> QED BY <2>3
<1> QED BY <1>2, <1>3

LEMMA RecordStep ==
  ASSUME NullIsNoValue, TypeInv, FilesInv, NEW e \in Entry, NEW sync \in BOOLEAN,
         AddsRecord(e, sync)
  PROVE  FilesInv'
<1>1. /\ DiskInv /\ NumbersInv /\ MemoryInv /\ HeldInv /\ ContentsInv /\ ManifestInv
      /\ WorkInv /\ EditInv
  BY DEF FilesInv, OpenInv, AddsRecord
<1>2. /\ Manifest' = Manifest /\ PossibleLengths' = PossibleLengths
      /\ edit' = edit => Appended' = Appended
  BY SameManifest DEF AddsRecord
<1>4. /\ phase = "up" /\ phase' = "up" /\ e.seq = last_sequence + 1
      /\ logs' = IF sync THEN SyncFile(AppendTo(logs, logfile_number, e), logfile_number)
                         ELSE AppendTo(logs, logfile_number, e)
      /\ mem \subseteq mem' /\ mem' \subseteq mem \cup {e} /\ last_sequence' = last_sequence + 1
      /\ \/ promised' = promised
         \/ promised' = promised \cup {e.id} /\ sync /\ e.found = "yes" /\ e \in mem'
      /\ bg_error => bg_error'
      /\ UNCHANGED <<tables, imm, logfile_number, log_number, manifest_file_number,
                     next_file_number, version, pinned, flush, merge, edit, pending_outputs>>
  BY DEF AddsRecord
<1>5. logfile_number \in DOMAIN logs /\ logfile_number \in Nat /\ last_sequence \in Nat
  BY <1>1 DEF NumbersInv, TypeInv, MemoryTypes
<1>6. /\ DOMAIN logs' = DOMAIN logs
      /\ \A m \in DOMAIN logs \ {logfile_number} : logs'[m] = logs[m]
      /\ ToSet(logs'[logfile_number].data) = ToSet(logs[logfile_number].data) \cup {e}
      /\ SurelyRead(logs[logfile_number]) \subseteq SurelyRead(logs'[logfile_number])
      /\ sync /\ e.found = "yes" => e \in SurelyRead(logs'[logfile_number])
  <2>1. HasFiles(logs, Entry)
    BY DEF TypeInv, DiskTypes
  <2> QED BY <1>4, <1>5, <2>1, LogAppended
<1>7. /\ Known \subseteq Known' /\ Known' \subseteq Known \cup {e}
      /\ Present' \subseteq Present \cup {e} /\ Known' \subseteq Present' /\ SafeInLog \subseteq SafeInLog'
      /\ mem' \subseteq Known'
  <2>1. Known \subseteq Known' /\ Known' \subseteq Known \cup {e} /\ mem' \subseteq Known'
    BY <1>4 DEF Known, Entries
  <2>2. LogData(logs', log_number) \subseteq LogData(logs, log_number) \cup {e}
    BY <1>6 DEF LogData, From
  <2> QED BY <1>4, <1>6, <2>1, <2>2 DEF Present, SafeInLog
<1>8. \A x \in Present : x.seq <= last_sequence /\ x.seq # e.seq /\ x.seq \in Nat
  <2>1. Present \subseteq Entry
    <3>1. \A n \in version : tables[n].data \in SUBSET Entry
      BY <1>1, TableFacts DEF HeldInv, Complete, TableFile
    <3>2. \A n \in From(logs, log_number) : ToSet(logs[n].data) \subseteq Entry
      BY LogFacts DEF From
    <3>3. DataOf(tables, version) \subseteq Entry /\ LogData(logs, log_number) \subseteq Entry
      BY <3>1, <3>2 DEF DataOf, LogData
    <3> QED BY <3>3 DEF Known, Present, Entries, TypeInv, MemoryTypes
  <2>2. \A x \in Present : x.seq \in Nat
    BY <2>1 DEF Entry
  <2> QED BY <1>1, <1>4, <1>5, <2>2 DEF ContentsInv
<1>9. NumbersInv'
  BY <1>1, <1>4, <1>6 DEF NumbersInv, AddsRecord
<1>10. MemoryInv'
  BY <1>1, <1>4 DEF MemoryInv
<1>11. HeldInv'
  BY <1>1, <1>4 DEF HeldInv, Complete, Entries
<1>12. ContentsInv'
  <2>1. promised' \subseteq Ids(Known')
    BY <1>1, <1>4, <1>7 DEF ContentsInv, Ids
  <2>2. \A x \in Present' : x.seq <= last_sequence'
    BY <1>4, <1>5, <1>7, <1>8
  <2>3. NumbersAreUnique(Present')
    BY <1>1, <1>7, <1>8 DEF ContentsInv, NumbersAreUnique
  <2> QED BY <2>1, <2>2, <2>3 DEF ContentsInv
<1>13. ASSUME NEW k \in PossibleLengths
       PROVE  /\ log_number <= LastEdit(Manifest.data, k).log
              /\ LastEdit(Manifest.data, k).log <= logfile_number
              /\ LastEdit(Manifest.data, k).next <= next_file_number
              /\ LastEdit(Manifest.data, k).last <= last_sequence'
              /\ DataOf(tables, ApplyEdits(Manifest.data, k)) \subseteq Known
              /\ LastEdit(Manifest.data, k) \in EditRecord
  BY <1>1, <1>4, <1>5, ManifestFacts DEF ManifestInv, EditRecord, VersionAt
<1>14. ManifestInv'
  <2>1. PICK size : size = Len(Manifest.data)
    OBVIOUS
  <2>2. promised' \subseteq Ids(DataOf(tables, VersionAt(size))) \cup Ids(Entries(imm))
                              \cup Ids(SafeInLog')
    <3>1. promised \subseteq Ids(DataOf(tables, VersionAt(size))) \cup Ids(Entries(imm))
                               \cup Ids(SafeInLog)
      BY <1>1, <2>1 DEF ManifestInv
    <3>2. Ids(SafeInLog) \subseteq Ids(SafeInLog')
      BY <1>7, IdsGrow
    <3>3. promised' # promised => e.id \in Ids(SafeInLog')
      BY <1>4, <1>6 DEF Ids, SafeInLog
    <3> QED BY <1>4, <3>1, <3>2, <3>3
  <2>3. ~bg_error => VersionAt(size) = IF edit # NULL /\ Appended
                                       THEN (version \ edit.deleted) \cup edit.added ELSE version
    BY <1>1, <2>1 DEF ManifestInv
  <2> QED BY <1>2, <1>4, <1>7, <1>13, <2>1, <2>2, <2>3 DEF ManifestInv, VersionAt, Entries
<1>15. WorkInv'
  BY <1>1, <1>4 DEF WorkInv
<1>16. EditInv'
  <2>1. edit # NULL => edit \in EditRecord /\ edit.last <= last_sequence'
    BY <1>1, <1>4, <1>5 DEF EditInv, TypeInv, MemoryTypes, EditRecord
  <2> QED BY <1>1, <1>2, <1>4, <2>1 DEF EditInv, AddsRecord
<1>17. DiskInv'
  <2>1. ASSUME NEW k \in PossibleLengths
        PROVE  Described(Manifest.data, k, current, tables', logs', promised')
    <3>1. PICK first \in Nat : first = LastEdit(Manifest.data, k).log
      BY <1>13 DEF EditRecord
    <3>2. log_number <= first /\ first <= logfile_number
      BY <1>13, <3>1
    <3>3. SyncedData(logs, first) \subseteq SyncedData(logs', first)
      <4>1. \A n \in From(logs, first) :
              n \in From(logs', first) /\ SurelyRead(logs[n]) \subseteq SurelyRead(logs'[n])
        BY <1>6 DEF From
      <4> QED BY <4>1, SyncedGrows
    <3>4. promised' # promised => e \in SyncedData(logs', first)
      BY <1>4, <1>5, <1>6, <3>2 DEF SyncedData, From
    <3>5. promised' \subseteq promised \cup Ids(SyncedData(logs', first))
      BY <1>4, <3>4 DEF Ids
    <3>6. LogData(logs', first) \subseteq LogData(logs, first) \cup {e}
      BY <1>6 DEF LogData, From
    <3>7. DataOf(tables, ApplyEdits(Manifest.data, k)) \cup LogData(logs, first) \subseteq Present
      BY <1>13, <3>2, LogsArePresent DEF Present
    <3>8. NumbersAreUnique(DataOf(tables, ApplyEdits(Manifest.data, k)) \cup LogData(logs', first))
      BY <1>1, <1>8, <3>6, <3>7 DEF ContentsInv, NumbersAreUnique
    <3>9. Described(Manifest.data, k, current, tables, logs, promised)
      BY <1>1 DEF DiskInv
    <3>10. \A n \in ApplyEdits(Manifest.data, k) : n \in DOMAIN tables' /\ tables'[n] = tables[n]
      BY <1>4, <3>9 DEF Described
    <3> QED BY <3>1, <3>3, <3>5, <3>8, <3>9, <3>10, DescribedStays
  <2> QED BY <1>1, <2>1, DiskStays DEF AddsRecord
<1> QED
  BY <1>4, <1>9, <1>10, <1>11, <1>12, <1>14, <1>15, <1>16, <1>17
  DEF FilesInv, OpenInv, ClosedInv, ReplayInv, SnapshotInv, Snapshotting

LEMMA OpenFacts ==
  ASSUME TypeInv, FilesInv, phase = "up"
  PROVE  /\ DiskInv /\ NumbersInv /\ MemoryInv /\ HeldInv /\ ContentsInv /\ ManifestInv
         /\ WorkInv /\ EditInv
         /\ \A k \in PossibleLengths :
              /\ Described(Manifest.data, k, current, tables, logs, promised)
              /\ LastEdit(Manifest.data, k) \in EditRecord
              /\ log_number <= LastEdit(Manifest.data, k).log
              /\ LastEdit(Manifest.data, k).log <= logfile_number
              /\ LastEdit(Manifest.data, k).next <= next_file_number
              /\ LastEdit(Manifest.data, k).last <= last_sequence
              /\ DataOf(tables, ApplyEdits(Manifest.data, k)) \subseteq Known
<1>1. /\ DiskInv /\ NumbersInv /\ MemoryInv /\ HeldInv /\ ContentsInv /\ ManifestInv
      /\ WorkInv /\ EditInv
  BY DEF FilesInv, OpenInv
<1> QED BY <1>1, ManifestFacts DEF DiskInv, ManifestInv, VersionAt

LEMMA MakeRoomStep ==
  ASSUME NullIsNoValue, TypeInv, FilesInv, MakeRoomForWrite
  PROVE  FilesInv'
<1>1. /\ phase = "up" /\ phase' = "up" /\ imm = NULL /\ mem # {}
      /\ logs' = Create(logs, next_file_number, <<>>)
      /\ logfile_number' = next_file_number /\ next_file_number' = next_file_number + 1
      /\ imm' = mem /\ mem' = {}
      /\ UNCHANGED <<tables, manifests, current, log_number, manifest_file_number,
                     last_sequence, version, pinned, flush, merge, edit, pending_outputs,
                     bg_error, promised>>
  BY DEF MakeRoomForWrite, background, history
<1>2. /\ DiskInv /\ NumbersInv /\ MemoryInv /\ HeldInv /\ ContentsInv /\ ManifestInv
      /\ WorkInv /\ EditInv
  BY <1>1, OpenFacts
<1>3. /\ Manifest' = Manifest /\ PossibleLengths' = PossibleLengths
      /\ edit' = edit => Appended' = Appended
  BY <1>1, SameManifest
<1>4. /\ DOMAIN logs' = DOMAIN logs \cup {next_file_number}
      /\ logs'[next_file_number] = [data |-> <<>>, synced |-> 0]
      /\ \A m \in DOMAIN logs \ {next_file_number} : logs'[m] = logs[m]
  <2>1. logs' = [m \in DOMAIN logs \cup {next_file_number} |->
                   IF m = next_file_number THEN [data |-> <<>>, synced |-> 0] ELSE logs[m]]
    BY <1>1 DEF Create, Empty
  <2> QED BY <2>1
<1>5. /\ log_number \in Nat /\ logfile_number \in Nat /\ next_file_number \in Nat
      /\ logfile_number \in DOMAIN logs /\ log_number <= logfile_number
      /\ logfile_number < next_file_number
      /\ \A n \in DOMAIN logs : n \in Nat /\ n <= logfile_number
  BY <1>2, LogFacts DEF NumbersInv, TypeInv, MemoryTypes
<1>6. next_file_number \notin DOMAIN logs
  BY <1>5
<1>7. Entries(imm') = mem /\ Entries(imm) = {} /\ imm' # NULL
  BY <1>1 DEF Entries, NullIsNoValue, TypeInv, MemoryTypes
<1>9. ToSet(<<>>) = {}
  BY DEF ToSet
<1>8. Known' = Known /\ Present' = Present
  <2>1. Known' = Known
    BY <1>1, <1>7 DEF Known
  <2>2. LogData(logs', log_number) = LogData(logs, log_number)
    <3>1. From(logs', log_number) = From(logs, log_number) \cup {next_file_number}
      BY <1>4, <1>5 DEF From
    <3>2. /\ ToSet(logs'[next_file_number].data) = {}
          /\ \A n \in From(logs, log_number) : logs'[n] = logs[n]
      BY <1>4, <1>6, <1>9 DEF From
    <3> QED BY <3>1, <3>2 DEF LogData
  <2> QED BY <1>1, <2>1, <2>2 DEF Present
<1>10. NumbersInv'
  BY <1>1, <1>2, <1>4, <1>5 DEF NumbersInv, TypeInv, DiskTypes
<1>11. MemoryInv'
  BY <1>7 DEF MemoryInv
<1>12. HeldInv'
  <2>1. \A n \in version \cup Entries(pinned) : n \in Nat
    BY DEF TypeInv, MemoryTypes, Entries
  <2> QED BY <1>1, <1>2, <1>5, <2>1 DEF HeldInv, Complete, Entries
<1>13. ContentsInv'
  BY <1>1, <1>2, <1>8 DEF ContentsInv
<1>14. ASSUME NEW k \in PossibleLengths
       PROVE  /\ log_number <= LastEdit(Manifest.data, k).log
              /\ LastEdit(Manifest.data, k).log <= logfile_number
              /\ LastEdit(Manifest.data, k).log <= logfile_number'
              /\ LastEdit(Manifest.data, k).next <= next_file_number'
              /\ LastEdit(Manifest.data, k).last <= last_sequence
              /\ DataOf(tables, ApplyEdits(Manifest.data, k)) \subseteq Known
              /\ Described(Manifest.data, k, current, tables, logs, promised)
              /\ LastEdit(Manifest.data, k) \in EditRecord
  BY <1>1, <1>5, OpenFacts DEF EditRecord
<1>15. ManifestInv'
  <2>1. PICK size : size = Len(Manifest.data)
    OBVIOUS
  <2>2. promised \subseteq Ids(DataOf(tables, VersionAt(size))) \cup Ids(mem)
    <3>1. promised \subseteq Ids(DataOf(tables, VersionAt(size))) \cup Ids(Entries(imm))
                               \cup Ids(SafeInLog)
      BY <1>2, <2>1 DEF ManifestInv
    <3>3. Ids(SafeInLog) \subseteq Ids(mem)
      BY IdsGrow DEF SafeInLog
    <3>4. Ids(Entries(imm)) = {}
      BY <1>7 DEF Ids
    <3> QED BY <3>1, <3>3, <3>4
  <2>3. ~bg_error => VersionAt(size) = IF edit # NULL /\ Appended
                                       THEN (version \ edit.deleted) \cup edit.added ELSE version
    BY <1>2, <2>1 DEF ManifestInv
  <2> QED BY <1>1, <1>3, <1>7, <1>8, <1>14, <2>1, <2>2, <2>3 DEF ManifestInv, VersionAt
<1>16. flush = NULL
  BY <1>1, <1>2 DEF WorkInv
<1>17. WorkInv'
  BY <1>1, <1>2, <1>5, <1>16 DEF WorkInv, TypeInv, MemoryTypes, Merges
<1>18. EditInv'
  <2>1. edit # NULL => edit \in EditRecord /\ edit.next <= next_file_number'
    BY <1>1, <1>2, <1>5 DEF EditInv, TypeInv, MemoryTypes, EditRecord
  <2> QED BY <1>1, <1>2, <1>3, <1>16, <2>1 DEF EditInv
<1>19. DiskInv'
  <2>1. ASSUME NEW k \in PossibleLengths
        PROVE  Described(Manifest.data, k, current, tables', logs', promised')
    <3>1. PICK first \in Nat : first = LastEdit(Manifest.data, k).log
      BY <1>14 DEF EditRecord
    <3>2. SyncedData(logs, first) \subseteq SyncedData(logs', first)
      <4>1. \A n \in From(logs, first) :
              n \in From(logs', first) /\ SurelyRead(logs[n]) \subseteq SurelyRead(logs'[n])
        BY <1>4, <1>6 DEF From
      <4> QED BY <4>1, SyncedGrows
    <3>3. LogData(logs', first) \subseteq LogData(logs, first)
      BY <1>4, <1>9 DEF LogData, From
    <3>4. LogData(logs, first) \subseteq Present
      BY <1>2, <1>14, <3>1, LogsArePresent
    <3>5. NumbersAreUnique(DataOf(tables, ApplyEdits(Manifest.data, k)) \cup LogData(logs', first))
      BY <1>2, <1>14, <3>3, <3>4, FewerNumbers DEF ContentsInv, Present
    <3>6. \A n \in ApplyEdits(Manifest.data, k) : n \in DOMAIN tables' /\ tables'[n] = tables[n]
      BY <1>1, <1>14 DEF Described
    <3> QED BY <1>1, <1>14, <3>1, <3>2, <3>5, <3>6, DescribedStays
  <2> QED BY <1>1, <1>2, <2>1, DiskStays
<1> QED
  BY <1>1, <1>10, <1>11, <1>12, <1>13, <1>15, <1>17, <1>18, <1>19
  DEF FilesInv, OpenInv, ClosedInv, ReplayInv, SnapshotInv, Snapshotting

LEMMA IteratorStep ==
  ASSUME NullIsNoValue, TypeInv, FilesInv, NewInternalIterator \/ CleanupIteratorState
  PROVE  FilesInv'
<1>1. phase = "up"
  BY DEF NewInternalIterator, CleanupIteratorState, FilesInv, ClosedInv
<1>2. /\ DiskInv /\ NumbersInv /\ MemoryInv /\ HeldInv /\ ContentsInv /\ ManifestInv
      /\ WorkInv /\ EditInv
  BY <1>1, OpenFacts
<1>3. /\ UNCHANGED <<logs, tables, manifests, current, phase, mem, imm, logfile_number,
                     log_number, manifest_file_number, next_file_number, last_sequence, version,
                     flush, merge, edit, pending_outputs, bg_error, promised>>
      /\ pinned' \in {version, NULL}
  BY DEF NewInternalIterator, CleanupIteratorState, directory, numbers, background, history
<1>4. /\ Manifest' = Manifest /\ PossibleLengths' = PossibleLengths /\ Appended' = Appended
  BY <1>3, SameManifest
<1>5. Known' = Known /\ Present' = Present /\ SafeInLog' = SafeInLog
  BY <1>3 DEF Known, Present, SafeInLog
<1>6. DiskInv'
  BY <1>2, <1>3, <1>4 DEF DiskInv
<1>7. HeldInv'
  <2>1. Entries(pinned') \subseteq version
    BY <1>3 DEF Entries
  <2> QED BY <1>2, <1>3, <2>1 DEF HeldInv, Complete
<1>8. NumbersInv' /\ MemoryInv' /\ ContentsInv'
  BY <1>2, <1>3, <1>5 DEF NumbersInv, MemoryInv, ContentsInv, Entries
<1>9. ManifestInv'
  BY <1>2, <1>3, <1>4, <1>5 DEF ManifestInv, VersionAt, Entries
<1>10. WorkInv' /\ EditInv'
  BY <1>2, <1>3, <1>4 DEF WorkInv, EditInv
<1> QED
  BY <1>1, <1>3, <1>6, <1>7, <1>8, <1>9, <1>10
  DEF FilesInv, OpenInv, ClosedInv, ReplayInv, SnapshotInv, Snapshotting

-----------------------------------------------------------------------------
(* The background thread.                                                  *)

\* A step that writes or syncs an output, when no edit is being applied.
OutputStep ==
  /\ phase = "up" /\ edit = NULL
  /\ UNCHANGED <<logs, manifests, current, phase, mem, imm, logfile_number, log_number,
                 manifest_file_number, last_sequence, version, pinned, bg_error, promised>>
  /\ next_file_number <= next_file_number' /\ next_file_number' \in Nat
  /\ \A n \in DOMAIN tables :
       n # next_file_number => /\ n \in DOMAIN tables' /\ tables'[n].data = tables[n].data
                               /\ tables[n].synced => tables'[n] = tables[n]
  /\ edit' # NULL /\ ~bg_error => ~Appended'

LEMMA OutputFacts ==
  ASSUME NullIsNoValue, TypeInv, FilesInv, OutputStep
  PROVE  /\ DiskInv' /\ NumbersInv' /\ MemoryInv' /\ HeldInv' /\ ContentsInv' /\ ManifestInv'
         /\ Known' = Known /\ Manifest' = Manifest /\ PossibleLengths' = PossibleLengths
<1>1. /\ DiskInv /\ NumbersInv /\ MemoryInv /\ HeldInv /\ ContentsInv /\ ManifestInv
      /\ WorkInv /\ EditInv
  BY OpenFacts DEF OutputStep
<1>2. Manifest' = Manifest /\ PossibleLengths' = PossibleLengths
  BY SameManifest DEF OutputStep
<1>3. next_file_number \in Nat /\ version \in SUBSET Nat /\ Entries(pinned) \in SUBSET Nat
  BY DEF TypeInv, MemoryTypes, Entries
<1>4. \A n \in version \cup Entries(pinned) :
        n \in DOMAIN tables' /\ tables'[n] = tables[n] /\ n \in DOMAIN tables /\ tables[n].synced
  BY <1>1, <1>3 DEF OutputStep, HeldInv, Complete
<1>5. DataOf(tables', version) = DataOf(tables, version)
  BY <1>4, DataStays
<1>6. Known' = Known /\ Present' = Present /\ SafeInLog' = SafeInLog
  <2>1. Known' = Known
    BY <1>5 DEF Known, OutputStep, Entries
  <2> QED BY <2>1 DEF Present, SafeInLog, OutputStep
<1>7. ASSUME NEW k \in PossibleLengths
      PROVE  /\ log_number <= LastEdit(Manifest.data, k).log
             /\ LastEdit(Manifest.data, k).log <= logfile_number
             /\ LastEdit(Manifest.data, k).next <= next_file_number'
             /\ LastEdit(Manifest.data, k).last <= last_sequence
             /\ LastEdit(Manifest.data, k) \in EditRecord
             /\ \A n \in ApplyEdits(Manifest.data, k) : n \in DOMAIN tables' /\ tables'[n] = tables[n]
             /\ DataOf(tables', ApplyEdits(Manifest.data, k)) = DataOf(tables, ApplyEdits(Manifest.data, k))
             /\ DataOf(tables, ApplyEdits(Manifest.data, k)) \subseteq Known
             /\ Described(Manifest.data, k, current, tables, logs, promised)
  <2>1. /\ log_number <= LastEdit(Manifest.data, k).log
        /\ LastEdit(Manifest.data, k).log <= logfile_number
        /\ LastEdit(Manifest.data, k).next <= next_file_number
        /\ LastEdit(Manifest.data, k).last <= last_sequence
        /\ LastEdit(Manifest.data, k) \in EditRecord
        /\ DataOf(tables, ApplyEdits(Manifest.data, k)) \subseteq Known
        /\ Described(Manifest.data, k, current, tables, logs, promised)
    BY OpenFacts DEF OutputStep
  <2>2. LastEdit(Manifest.data, k).next \in Nat
    BY <2>1 DEF EditRecord
  <2>3. \A n \in ApplyEdits(Manifest.data, k) :
          n \in Nat /\ n \in DOMAIN tables /\ tables[n].synced /\ n < LastEdit(Manifest.data, k).next
    BY <2>1, TableFacts DEF Described
  <2>4. \A n \in ApplyEdits(Manifest.data, k) : n \in DOMAIN tables' /\ tables'[n] = tables[n]
    BY <1>3, <2>1, <2>2, <2>3 DEF OutputStep
  <2>5. DataOf(tables', ApplyEdits(Manifest.data, k)) = DataOf(tables, ApplyEdits(Manifest.data, k))
    BY <2>4, DataStays
  <2>6. LastEdit(Manifest.data, k).next <= next_file_number'
    BY <1>3, <2>1, <2>2 DEF OutputStep
  <2> QED BY <2>1, <2>4, <2>5, <2>6
<1>8. NumbersInv'
  BY <1>1, <1>3 DEF NumbersInv, OutputStep, TypeInv, DiskTypes, MemoryTypes
<1>9. MemoryInv'
  BY <1>1 DEF MemoryInv, OutputStep, Entries
<1>10. HeldInv'
  BY <1>1, <1>3, <1>4 DEF HeldInv, Complete, OutputStep, Entries
<1>11. ContentsInv'
  BY <1>1, <1>6 DEF ContentsInv, OutputStep
<1>12. ManifestInv'
  <2>1. PICK size \in PossibleLengths : size = Len(Manifest.data)
    BY <1>1, ManifestFacts
  <2>2. promised \subseteq Ids(DataOf(tables', ApplyEdits(Manifest.data, size))) \cup Ids(Entries(imm))
                              \cup Ids(SafeInLog)
    BY <1>1, <1>7, <2>1 DEF ManifestInv, VersionAt
  <2>3. ~bg_error => ApplyEdits(Manifest.data, size) = version
    BY <1>1, <2>1 DEF ManifestInv, VersionAt, OutputStep
  <2> QED BY <1>2, <1>6, <1>7, <2>1, <2>2, <2>3 DEF ManifestInv, VersionAt, OutputStep, Entries
<1>13. DiskInv'
  <2>1. ASSUME NEW k \in PossibleLengths
        PROVE  Described(Manifest.data, k, current, tables', logs', promised')
    <3>1. PICK first \in Nat : first = LastEdit(Manifest.data, k).log
      BY <1>7 DEF EditRecord
    <3>2. logs' = logs /\ promised' = promised
      BY DEF OutputStep
    <3>3. LogData(logs, first) \subseteq Present
      BY <1>1, <1>7, <3>1, LogsArePresent
    <3>4. NumbersAreUnique(DataOf(tables, ApplyEdits(Manifest.data, k)) \cup LogData(logs', first))
      BY <1>1, <1>7, <3>2, <3>3, FewerNumbers DEF ContentsInv, Present
    <3> QED BY <1>7, <3>1, <3>2, <3>4, DescribedStays
  <2> QED BY <1>1, <2>1, DiskStays DEF OutputStep
<1> QED BY <1>2, <1>6, <1>8, <1>9, <1>10, <1>11, <1>12, <1>13

LEMMA BeginFlushStep ==
  ASSUME NullIsNoValue, TypeInv, FilesInv, BeginFlush
  PROVE  FilesInv'
<1>1. /\ phase = "up" /\ phase' = "up" /\ imm # NULL /\ flush = NULL /\ edit = NULL
      /\ flush' = [number |-> next_file_number, step |-> "build"]
      /\ next_file_number' = next_file_number + 1
      /\ pending_outputs' = pending_outputs \cup {next_file_number}
      /\ tables' = WriteTable(next_file_number, imm, FALSE)
      /\ UNCHANGED <<logs, manifests, current, mem, imm, logfile_number, log_number,
                     manifest_file_number, last_sequence, version, pinned, merge, edit,
                     bg_error, promised>>
  BY DEF BeginFlush, history
<1>2. imm \in SUBSET Entry /\ next_file_number \in Nat /\ version \in SUBSET Nat
  BY <1>1 DEF TypeInv, MemoryTypes
<1>3. /\ DOMAIN tables' = DOMAIN tables \cup {next_file_number}
      /\ tables'[next_file_number] = [data |-> imm, synced |-> FALSE]
      /\ \A m \in DOMAIN tables \ {next_file_number} : tables'[m] = tables[m]
  <2>1. FALSE \in BOOLEAN
    OBVIOUS
  <2> QED BY <1>1, <1>2, <2>1, WriteTableFacts
<1>4. OutputStep
  <2>1. \A n \in DOMAIN tables :
          n # next_file_number => /\ n \in DOMAIN tables' /\ tables'[n].data = tables[n].data
                                  /\ tables[n].synced => tables'[n] = tables[n]
    BY ONLY <1>3
  <2>2. /\ next_file_number <= next_file_number' /\ next_file_number' \in Nat
        /\ edit = NULL /\ edit' = NULL
    BY <1>1, <1>2
  <2>3. /\ phase = "up"
        /\ UNCHANGED <<logs, manifests, current, phase, mem, imm, logfile_number, log_number,
                       manifest_file_number, last_sequence, version, pinned, bg_error, promised>>
    BY <1>1
  <2> QED BY ONLY <2>1, <2>2, <2>3 DEF OutputStep
<1>5. /\ DiskInv' /\ NumbersInv' /\ MemoryInv' /\ HeldInv' /\ ContentsInv' /\ ManifestInv'
  BY <1>4, OutputFacts
<1>6. WorkInv /\ HeldInv
  BY <1>1, OpenFacts
<1>7. next_file_number \notin version
  BY <1>2, <1>6 DEF HeldInv
<1>8. WorkInv'
  <2>1. /\ imm' # NULL /\ flush'.number \in DOMAIN tables' \ version'
        /\ flush'.number < next_file_number' /\ tables'[flush'.number].data = imm'
    <3>1. flush'.number = next_file_number /\ imm' = imm /\ version' = version
      BY <1>1
    <3>2. next_file_number < next_file_number' /\ next_file_number \in DOMAIN tables'
      <4>1. next_file_number' = next_file_number + 1
        BY <1>1
      <4> QED BY ONLY <1>2, <1>3, <4>1
    <3>3. tables'[next_file_number].data = imm
      BY ONLY <1>3
    <3> QED BY <1>1, <1>7, <3>1, <3>2, <3>3
  <2>2. ASSUME merge # NULL
        PROVE  /\ merge.number \in DOMAIN tables' \ version /\ merge.number < next_file_number'
               /\ merge.number \in pending_outputs' /\ merge.inputs \subseteq version
               /\ tables'[merge.number].data = DataOf(tables', merge.inputs)
               /\ flush'.number # merge.number
    <3>1. /\ merge.number \in DOMAIN tables \ version /\ merge.number < next_file_number
          /\ merge.number \in pending_outputs /\ merge.inputs \subseteq version
          /\ tables[merge.number].data = DataOf(tables, merge.inputs)
          /\ merge.number \in Nat
      BY <1>6, <2>2 DEF WorkInv, TypeInv, MemoryTypes, Merges
    <3>2. \A n \in merge.inputs : n \in DOMAIN tables \ {next_file_number}
      BY <1>6, <1>7, <3>1 DEF HeldInv, Complete
    <3>3. DataOf(tables', merge.inputs) = DataOf(tables, merge.inputs)
      BY <1>3, <3>2, DataStays
    <3>4. merge.number # next_file_number /\ merge.number < next_file_number'
      BY <1>1, <1>2, <3>1
    <3> QED BY <1>1, <1>3, <3>1, <3>3, <3>4
  <2> QED BY <1>1, <2>1, <2>2 DEF WorkInv
<1>9. EditInv'
  BY <1>1 DEF EditInv
<1> QED
  BY <1>1, <1>5, <1>8, <1>9
  DEF FilesInv, OpenInv, ClosedInv, ReplayInv, SnapshotInv, Snapshotting

LEMMA BeginMergeStep ==
  ASSUME NullIsNoValue, TypeInv, FilesInv, BeginMerge
  PROVE  FilesInv'
<1>1. PICK inputs \in SUBSET version :
        /\ merge' = [number |-> next_file_number, step |-> "build", inputs |-> inputs]
        /\ tables' = WriteTable(next_file_number, TableEntries(inputs), FALSE)
  BY DEF BeginMerge
<1>2. /\ phase = "up" /\ phase' = "up" /\ edit = NULL /\ flush = NULL /\ imm = NULL
      /\ next_file_number' = next_file_number + 1
      /\ pending_outputs' = pending_outputs \cup {next_file_number}
      /\ UNCHANGED <<logs, manifests, current, mem, imm, logfile_number, log_number,
                     manifest_file_number, last_sequence, version, pinned, flush, edit,
                     bg_error, promised>>
  <2>1. EditInv /\ WorkInv
    BY OpenFacts DEF BeginMerge
  <2>2. flush = NULL /\ merge = NULL
    BY DEF BeginMerge
  <2>3. edit = NULL
    BY <2>1, <2>2 DEF EditInv
  <2> QED BY <2>3 DEF BeginMerge, history
<1>3. WorkInv /\ HeldInv
  BY <1>2, OpenFacts
<1>4. next_file_number \in Nat /\ version \in SUBSET Nat
  BY DEF TypeInv, MemoryTypes
<1>5. next_file_number \notin version
  BY <1>3, <1>4 DEF HeldInv
<1>6. TableEntries(inputs) = DataOf(tables, inputs) /\ DataOf(tables, inputs) \in SUBSET Entry
  <2>1. \A n \in inputs : tables[n].data \in SUBSET Entry
    BY <1>1, <1>3, TableFacts DEF HeldInv, Complete, TableFile
  <2> QED BY <2>1 DEF TableEntries, DataOf
<1>7. /\ DOMAIN tables' = DOMAIN tables \cup {next_file_number}
      /\ tables'[next_file_number] = [data |-> DataOf(tables, inputs), synced |-> FALSE]
      /\ \A m \in DOMAIN tables \ {next_file_number} : tables'[m] = tables[m]
  <2>1. PICK entries \in SUBSET Entry : entries = DataOf(tables, inputs)
    BY <1>6
  <2>2. FALSE \in BOOLEAN /\ tables' = WriteTable(next_file_number, entries, FALSE)
    BY <1>1, <1>6, <2>1
  <2> QED BY <1>4, <2>1, <2>2, WriteTableFacts
<1>8. OutputStep
  BY <1>2, <1>4, <1>7 DEF OutputStep
<1>9. /\ DiskInv' /\ NumbersInv' /\ MemoryInv' /\ HeldInv' /\ ContentsInv' /\ ManifestInv'
  BY <1>8, OutputFacts
<1>10. DataOf(tables', inputs) = DataOf(tables, inputs)
  <2>1. \A n \in inputs : n \in DOMAIN tables \ {next_file_number}
    BY <1>1, <1>3, <1>5 DEF HeldInv, Complete
  <2> QED BY <1>7, <2>1, DataStays
<1>11. WorkInv'
  <2>1. /\ merge'.number \in DOMAIN tables' \ version' /\ merge'.number < next_file_number'
        /\ merge'.number \in pending_outputs' /\ merge'.inputs \subseteq version'
        /\ tables'[merge'.number].data = DataOf(tables', merge'.inputs)
    <3>1. merge'.number = next_file_number /\ merge'.inputs = inputs /\ version' = version
      BY <1>1, <1>2
    <3>2. next_file_number < next_file_number' /\ next_file_number \in DOMAIN tables'
      BY <1>2, <1>4, <1>7
    <3>3. tables'[next_file_number].data = DataOf(tables, inputs)
      BY ONLY <1>7
    <3>4. next_file_number \in pending_outputs' /\ inputs \subseteq version
      BY <1>1, <1>2
    <3> QED BY ONLY <1>5, <1>10, <3>1, <3>2, <3>3, <3>4
  <2> QED BY <1>2, <2>1 DEF WorkInv
<1>12. EditInv'
  BY <1>2 DEF EditInv
<1> QED
  BY <1>2, <1>9, <1>11, <1>12
  DEF FilesInv, OpenInv, ClosedInv, ReplayInv, SnapshotInv, Snapshotting

\* An edit that adds a new table is not already the manifest's last record.
LEMMA NotAppended ==
  ASSUME NullIsNoValue, TypeInv, FilesInv, phase = "up", edit = NULL, Manifest' = Manifest,
         edit' \in EditRecord, NEW n \in edit'.added, n \notin version, ~bg_error
  PROVE  ~Appended'
<1>1. DiskInv /\ ManifestInv
  BY OpenFacts
<1>2. PICK d \in Seq(EditOrPiece) : d = Manifest.data /\ Whole(d, Len(d)) # {}
  BY <1>1, ManifestFacts
<1>3. ApplyEdits(d, Len(d)) = version
  BY <1>1, <1>2 DEF ManifestInv, VersionAt
<1> SUFFICES ASSUME Appended' PROVE FALSE
  OBVIOUS
<1>4. d[Len(d)] = edit' /\ edit' # NULL
  BY <1>2 DEF Appended, Last, NullIsNoValue
<1>5. Len(d) \in Whole(d, Len(d)) /\ \A j \in Whole(d, Len(d)) : ~(j > Len(d))
  <2>1. Len(d) \in Nat /\ Len(d) # 0
    BY <1>2 DEF Whole
  <2> QED BY <1>4, <2>1 DEF Whole
<1>6. n \in ApplyEdits(d, Len(d))
  BY <1>4, <1>5, InEdits
<1> QED BY <1>3, <1>6

LEMMA EndFlushStep ==
  ASSUME NullIsNoValue, TypeInv, FilesInv, EndFlush
  PROVE  FilesInv'
<1>1. /\ phase = "up" /\ phase' = "up" /\ flush # NULL /\ edit = NULL
      /\ tables' = SyncTable(flush.number)
      /\ pending_outputs' = pending_outputs \ {flush.number}
      /\ edit' = [log |-> logfile_number, next |-> next_file_number, last |-> last_sequence,
                  added |-> {flush.number}, deleted |-> {}]
      /\ flush' = [flush EXCEPT !.step = "apply"]
      /\ UNCHANGED <<logs, manifests, current, mem, imm, logfile_number, log_number,
                     manifest_file_number, next_file_number, last_sequence, version, pinned,
                     merge, bg_error, promised>>
  BY DEF EndFlush, Edit, numbers, history
<1>2. NumbersInv /\ ContentsInv /\ HeldInv /\ WorkInv
  BY <1>1, OpenFacts
<1>3. PICK n \in Nat : n = flush.number
  BY <1>1 DEF TypeInv, MemoryTypes, Flushes
<1>4. /\ imm # NULL /\ n \in DOMAIN tables \ version /\ n < next_file_number
      /\ tables[n].data = imm
      /\ flush' # NULL /\ flush'.number = n
  <2>1. flush' = [flush EXCEPT !.step = "apply"] /\ flush \in Flushes
    BY <1>1 DEF TypeInv, MemoryTypes
  <2>2. flush' \in Flushes /\ flush'.number = flush.number
    BY <2>1 DEF Flushes, Steps
  <2> QED BY <1>1, <1>2, <1>3, <2>2 DEF WorkInv, NullIsNoValue
<1>5. /\ DOMAIN tables' = DOMAIN tables /\ tables'[n].synced
      /\ \A m \in DOMAIN tables : /\ tables'[m].data = tables[m].data
                                  /\ tables[m].synced => tables'[m] = tables[m]
  BY <1>1, <1>3, <1>4, SyncTableFacts
<1>6. edit' \in EditRecord
  BY <1>1, <1>3 DEF EditRecord, TypeInv, MemoryTypes
<1>7. Manifest' = Manifest
  BY <1>1, SameManifest
<1>8. OutputStep
  <2>1. ~bg_error => ~Appended'
    <3> SUFFICES ASSUME ~bg_error PROVE ~Appended'
      OBVIOUS
    <3>1. n \in edit'.added
      BY <1>1, <1>3
    <3> QED BY <1>1, <1>4, <1>6, <1>7, <3>1, NotAppended
  <2>2. next_file_number <= next_file_number' /\ next_file_number' \in Nat
    BY <1>1 DEF TypeInv, MemoryTypes
  <2>3. \A m \in DOMAIN tables :
          m # next_file_number => /\ m \in DOMAIN tables' /\ tables'[m].data = tables[m].data
                                  /\ tables[m].synced => tables'[m] = tables[m]
    BY ONLY <1>5
  <2>4. /\ phase = "up" /\ edit = NULL
        /\ UNCHANGED <<logs, manifests, current, phase, mem, imm, logfile_number, log_number,
                       manifest_file_number, last_sequence, version, pinned, bg_error, promised>>
    BY <1>1
  <2> QED BY ONLY <2>1, <2>2, <2>3, <2>4 DEF OutputStep
<1>9. /\ DiskInv' /\ NumbersInv' /\ MemoryInv' /\ HeldInv' /\ ContentsInv' /\ ManifestInv'
      /\ PossibleLengths' = PossibleLengths
  BY <1>8, OutputFacts
<1>10. WorkInv'
  <2>1. flush'.number \in DOMAIN tables' \ version' /\ tables'[flush'.number].data = imm'
    <3>1. imm' = imm /\ version' = version
      BY <1>1
    <3> QED BY ONLY <1>4, <1>5, <3>1
  <2>2. ASSUME merge # NULL
        PROVE  /\ merge.number \in DOMAIN tables' \ version /\ merge.number < next_file_number
               /\ merge.number \in pending_outputs' /\ merge.inputs \subseteq version
               /\ tables'[merge.number].data = DataOf(tables', merge.inputs)
               /\ n # merge.number
    <3>1. /\ merge.number \in DOMAIN tables \ version /\ merge.number < next_file_number
          /\ merge.number \in pending_outputs /\ merge.inputs \subseteq version
          /\ tables[merge.number].data = DataOf(tables, merge.inputs)
          /\ n # merge.number
      BY <1>1, <1>2, <1>3, <2>2 DEF WorkInv
    <3>2. \A m \in merge.inputs : m \in DOMAIN tables
      BY <1>2, <3>1 DEF HeldInv, Complete
    <3>3. DataOf(tables', merge.inputs) = DataOf(tables, merge.inputs)
      BY <1>5, <3>2, DataStays
    <3> QED BY <1>1, <1>3, <1>5, <3>1, <3>3
  <2> QED BY <1>1, <1>4, <2>1, <2>2 DEF WorkInv
<1>11. EditInv'
  <2>1. /\ edit'.added = {flush'.number} /\ edit'.deleted = {} /\ edit'.log = logfile_number'
        /\ edit'.next = next_file_number' /\ edit'.last = last_sequence'
    BY <1>1, <1>3, <1>4
  <2>2. edit'.log < edit'.next /\ current' < edit'.next
    BY <1>1, <1>2, <2>1 DEF NumbersInv
  <2>3. edit'.next <= next_file_number' /\ edit'.last <= last_sequence'
    BY <1>1, <2>1 DEF TypeInv, MemoryTypes
  <2>4. \A m \in edit'.added : /\ tables'[m].synced /\ m < edit'.next
                               /\ \A e \in tables'[m].data : e.seq <= edit'.last
    <3>1. \A e \in imm : e.seq <= last_sequence
      BY <1>2, <1>4 DEF ContentsInv, Known, Present, Entries
    <3>2. edit'.added = {n} /\ edit'.next = next_file_number /\ edit'.last = last_sequence
      BY <1>1, <1>3
    <3>3. tables'[n].data = imm /\ n < next_file_number
      BY <1>4, <1>5
    <3> QED BY ONLY <1>5, <3>1, <3>2, <3>3
  <2>5. \A k \in PossibleLengths' : /\ LastEdit(Manifest'.data, k).next <= edit'.next
                                    /\ LastEdit(Manifest'.data, k).last <= edit'.last
    <3>1. \A k \in PossibleLengths : /\ LastEdit(Manifest.data, k).next <= next_file_number
                                    /\ LastEdit(Manifest.data, k).last <= last_sequence
      BY <1>1, OpenFacts
    <3> QED BY <1>1, <1>7, <1>9, <2>1, <3>1
  <2> QED BY ONLY <1>4, <2>1, <2>2, <2>3, <2>4, <2>5 DEF EditInv
<1> QED
  BY <1>1, <1>9, <1>10, <1>11
  DEF FilesInv, OpenInv, ClosedInv, ReplayInv, SnapshotInv, Snapshotting

LEMMA EndMergeStep ==
  ASSUME NullIsNoValue, TypeInv, FilesInv, EndMerge
  PROVE  FilesInv'
<1>1. /\ phase = "up" /\ phase' = "up" /\ merge # NULL /\ flush = NULL /\ edit = NULL
      /\ tables' = SyncTable(merge.number)
      /\ edit' = [log |-> log_number, next |-> next_file_number, last |-> last_sequence,
                  added |-> {merge.number}, deleted |-> merge.inputs]
      /\ merge' = [merge EXCEPT !.step = "apply"]
      /\ UNCHANGED <<logs, manifests, current, mem, imm, logfile_number, log_number,
                     manifest_file_number, next_file_number, last_sequence, version, pinned,
                     flush, pending_outputs, bg_error, promised>>
  BY DEF EndMerge, Edit, numbers, history
<1>2. NumbersInv /\ ContentsInv /\ HeldInv /\ WorkInv
  BY <1>1, OpenFacts
<1>3. PICK n \in Nat, inputs \in SUBSET Nat : n = merge.number /\ inputs = merge.inputs
  BY <1>1 DEF TypeInv, MemoryTypes, Merges
<1>4. /\ n \in DOMAIN tables \ version /\ n < next_file_number /\ n \in pending_outputs
      /\ inputs \subseteq version /\ tables[n].data = DataOf(tables, inputs)
      /\ merge' # NULL /\ merge'.number = n /\ merge'.inputs = inputs
  <2>1. merge' = [merge EXCEPT !.step = "apply"] /\ merge \in Merges
    BY <1>1 DEF TypeInv, MemoryTypes
  <2>2. merge' \in Merges /\ merge'.number = merge.number /\ merge'.inputs = merge.inputs
    BY <2>1 DEF Merges, Steps
  <2> QED BY <1>1, <1>2, <1>3, <2>2 DEF WorkInv, NullIsNoValue
<1>5. /\ DOMAIN tables' = DOMAIN tables /\ tables'[n].synced
      /\ \A m \in DOMAIN tables : /\ tables'[m].data = tables[m].data
                                  /\ tables[m].synced => tables'[m] = tables[m]
  BY <1>1, <1>3, <1>4, SyncTableFacts
<1>6. edit' \in EditRecord
  BY <1>1, <1>3 DEF EditRecord, TypeInv, MemoryTypes
<1>7. Manifest' = Manifest
  BY <1>1, SameManifest
<1>8. OutputStep
  <2>1. ~bg_error => ~Appended'
    <3> SUFFICES ASSUME ~bg_error PROVE ~Appended'
      OBVIOUS
    <3>1. n \in edit'.added
      BY <1>1, <1>3
    <3> QED BY <1>1, <1>4, <1>6, <1>7, <3>1, NotAppended
  <2>2. next_file_number <= next_file_number' /\ next_file_number' \in Nat
    BY <1>1 DEF TypeInv, MemoryTypes
  <2>3. \A m \in DOMAIN tables :
          m # next_file_number => /\ m \in DOMAIN tables' /\ tables'[m].data = tables[m].data
                                  /\ tables[m].synced => tables'[m] = tables[m]
    BY ONLY <1>5
  <2>4. /\ phase = "up" /\ edit = NULL
        /\ UNCHANGED <<logs, manifests, current, phase, mem, imm, logfile_number, log_number,
                       manifest_file_number, last_sequence, version, pinned, bg_error, promised>>
    BY <1>1
  <2> QED BY ONLY <2>1, <2>2, <2>3, <2>4 DEF OutputStep
<1>9. /\ DiskInv' /\ NumbersInv' /\ MemoryInv' /\ HeldInv' /\ ContentsInv' /\ ManifestInv'
      /\ PossibleLengths' = PossibleLengths
  BY <1>8, OutputFacts
<1>10. DataOf(tables', inputs) = DataOf(tables, inputs)
  <2>1. \A m \in inputs : m \in DOMAIN tables
    BY <1>2, <1>4 DEF HeldInv, Complete
  <2> QED BY <1>5, <2>1, DataStays
<1>11. WorkInv'
  <2>1. flush' = NULL /\ version' = version /\ next_file_number' = next_file_number
        /\ pending_outputs' = pending_outputs
    BY <1>1
  <2>2. tables'[n].data = DataOf(tables', inputs)
    BY <1>4, <1>5, <1>10
  <2> QED BY ONLY <1>4, <1>5, <2>1, <2>2 DEF WorkInv
<1>12. EditInv'
  <2>1. /\ edit'.added = {merge'.number} /\ edit'.deleted = merge'.inputs
        /\ edit'.log = log_number' /\ flush' = NULL
        /\ edit'.next = next_file_number' /\ edit'.last = last_sequence'
    BY <1>1, <1>3, <1>4
  <2>2. edit'.log < edit'.next /\ current' < edit'.next
    BY <1>1, <1>2, <2>1 DEF NumbersInv, TypeInv, MemoryTypes
  <2>3. edit'.next <= next_file_number' /\ edit'.last <= last_sequence'
    BY <1>1, <2>1 DEF TypeInv, MemoryTypes
  <2>4. \A m \in edit'.added : /\ tables'[m].synced /\ m < edit'.next
                               /\ \A e \in tables'[m].data : e.seq <= edit'.last
    <3>1. \A e \in DataOf(tables, inputs) : e.seq <= last_sequence
      BY <1>2, <1>4 DEF ContentsInv, Known, Present, DataOf
    <3>2. edit'.added = {n} /\ edit'.next = next_file_number /\ edit'.last = last_sequence
      BY <1>1, <1>3
    <3>3. tables'[n].data = DataOf(tables, inputs) /\ n < next_file_number
      BY <1>4, <1>5
    <3> QED BY ONLY <1>5, <3>1, <3>2, <3>3
  <2>5. \A k \in PossibleLengths' : /\ LastEdit(Manifest'.data, k).next <= edit'.next
                                    /\ LastEdit(Manifest'.data, k).last <= edit'.last
    <3>1. \A k \in PossibleLengths : /\ LastEdit(Manifest.data, k).next <= next_file_number
                                    /\ LastEdit(Manifest.data, k).last <= last_sequence
      BY <1>1, OpenFacts
    <3> QED BY <1>1, <1>7, <1>9, <2>1, <3>1
  <2> QED BY ONLY <1>4, <2>1, <2>2, <2>3, <2>4, <2>5 DEF EditInv
<1> QED
  BY <1>1, <1>9, <1>11, <1>12
  DEF FilesInv, OpenInv, ClosedInv, ReplayInv, SnapshotInv, Snapshotting

-----------------------------------------------------------------------------
(* LogAndApply on an open database.                                        *)

\* What holds of the tables of the edit being applied, and of the version it
\* leads to.
LEMMA EditFacts ==
  ASSUME NullIsNoValue, TypeInv, FilesInv, phase = "up", edit # NULL, NEW v
  PROVE  LET w == (v \ edit.deleted) \cup edit.added
         IN /\ edit \in EditRecord
            /\ \A n \in edit.added : /\ n \in DOMAIN tables /\ n \in Nat /\ tables[n].synced
                                     /\ n < edit.next /\ n < next_file_number
                                     /\ \A e \in tables[n].data : e.seq <= edit.last
            /\ DataOf(tables, edit.added) \subseteq Known
            /\ DataOf(tables, v) \subseteq DataOf(tables, w)
            /\ DataOf(tables, w) \subseteq DataOf(tables, v) \cup Known
            /\ log_number <= edit.log /\ edit.log <= logfile_number
            /\ flush # NULL => imm # NULL /\ imm = DataOf(tables, edit.added)
                               /\ edit.deleted = {} /\ edit.log = logfile_number
            /\ flush = NULL => merge # NULL /\ edit.log = log_number
<1>1. WorkInv /\ EditInv /\ NumbersInv
  BY OpenFacts
<1>2. edit \in EditRecord
  BY DEF TypeInv, MemoryTypes
<1>3. log_number <= logfile_number /\ log_number \in Nat /\ logfile_number \in Nat
  BY <1>1 DEF NumbersInv, TypeInv, MemoryTypes
<1>4. CASE flush # NULL
  <2>1. PICK n \in Nat : n = flush.number
    BY <1>4 DEF TypeInv, MemoryTypes, Flushes
  <2>2. /\ n \in DOMAIN tables /\ n < next_file_number /\ imm # NULL /\ tables[n].data = imm
        /\ edit.added = {n} /\ edit.deleted = {} /\ edit.log = logfile_number
        /\ tables[n].synced /\ n < edit.next /\ \A e \in tables[n].data : e.seq <= edit.last
    BY <1>1, <1>4, <2>1 DEF WorkInv, EditInv
  <2>3. DataOf(tables, edit.added) = imm
    BY <2>2 DEF DataOf
  <2>4. imm \subseteq Known
    BY <2>2 DEF Known, Entries
  <2>5. DataOf(tables, (v \ edit.deleted) \cup edit.added) = DataOf(tables, v) \cup imm
    BY <2>2 DEF DataOf
  <2>6. \A m \in edit.added : /\ m \in DOMAIN tables /\ m \in Nat /\ tables[m].synced
                               /\ m < edit.next /\ m < next_file_number
                               /\ \A e \in tables[m].data : e.seq <= edit.last
    BY ONLY <2>1, <2>2
  <2>7. log_number <= edit.log /\ edit.log <= logfile_number
    BY <1>3, <2>2
  <2>8. DataOf(tables, v) \cup imm \subseteq DataOf(tables, v) \cup Known
    BY <2>4
  <2> QED BY ONLY <1>2, <1>4, <2>2, <2>3, <2>4, <2>5, <2>6, <2>7, <2>8
<1>5. CASE flush = NULL
  <2>1. PICK n \in Nat, inputs \in SUBSET Nat : n = merge.number /\ inputs = merge.inputs
    BY <1>1, <1>5 DEF EditInv, TypeInv, MemoryTypes, Merges
  <2>2. /\ merge # NULL /\ n \in DOMAIN tables /\ n < next_file_number
        /\ inputs \subseteq version /\ tables[n].data = DataOf(tables, inputs)
        /\ edit.added = {n} /\ edit.deleted = inputs /\ edit.log = log_number
        /\ tables[n].synced /\ n < edit.next /\ \A e \in tables[n].data : e.seq <= edit.last
    BY <1>1, <1>5, <2>1 DEF WorkInv, EditInv
  <2>3. DataOf(tables, edit.added) = DataOf(tables, inputs)
    BY <2>2 DEF DataOf
  <2>4. DataOf(tables, inputs) \subseteq Known
    BY <2>2 DEF Known, DataOf
  <2>5. DataOf(tables, (v \ edit.deleted) \cup edit.added)
          = DataOf(tables, v \ inputs) \cup DataOf(tables, inputs)
    BY <2>2, <2>3 DEF DataOf
  <2>6. /\ DataOf(tables, v) \subseteq DataOf(tables, v \ inputs) \cup DataOf(tables, inputs)
        /\ DataOf(tables, v \ inputs) \subseteq DataOf(tables, v)
    BY DEF DataOf
  <2>7. \A m \in edit.added : /\ m \in DOMAIN tables /\ m \in Nat /\ tables[m].synced
                               /\ m < edit.next /\ m < next_file_number
                               /\ \A e \in tables[m].data : e.seq <= edit.last
    BY ONLY <2>1, <2>2
  <2>8. log_number <= edit.log /\ edit.log <= logfile_number
    BY <1>3, <2>2
  <2> QED BY ONLY <1>2, <1>5, <2>2, <2>3, <2>4, <2>5, <2>6, <2>7, <2>8
<1> QED BY <1>4, <1>5

\* The manifest has one record more, or a piece of one.
LEMMA ManifestGrows ==
  ASSUME TypeInv, FilesInv, phase = "up", NEW x \in EditOrPiece,
         manifests' = AppendTo(manifests, current, x), current' = current
  PROVE  /\ Manifest'.data = Append(Manifest.data, x)
         /\ PossibleLengths' = PossibleLengths \cup {Len(Manifest'.data)}
         /\ \A k \in PossibleLengths :
              /\ LastEdit(Manifest'.data, k) = LastEdit(Manifest.data, k)
              /\ ApplyEdits(Manifest'.data, k) = ApplyEdits(Manifest.data, k)
              /\ Whole(Manifest'.data, k) = Whole(Manifest.data, k)
         /\ current \in DOMAIN manifests'
<1>1. HasFiles(manifests, EditOrPiece) /\ current \in DOMAIN manifests /\ DiskInv
  BY DEF TypeInv, DiskTypes, FilesInv, DiskInv
<1>2. /\ DOMAIN manifests' = DOMAIN manifests
      /\ manifests'[current] = [data |-> Append(manifests[current].data, x),
                                synced |-> manifests[current].synced]
  BY <1>1, AppendFacts
<1>3. PICK d \in Seq(EditOrPiece), s \in Nat :
        /\ Manifest = [data |-> d, synced |-> s] /\ s <= Len(d)
        /\ Manifest.data = d /\ Manifest.synced = s
  BY <1>1, ManifestFacts
<1>4. PICK e \in Seq(EditOrPiece) : /\ e = Append(d, x) /\ Len(e) = Len(d) + 1
                                    /\ \A i \in 1 .. Len(d) : e[i] = d[i]
  <2>1. d \in Seq(EditOrPiece) /\ x \in EditOrPiece
    BY <1>3
  <2>2. /\ Append(d, x) \in Seq(EditOrPiece) /\ Len(Append(d, x)) = Len(d) + 1
        /\ \A i \in 1 .. Len(d) : Append(d, x)[i] = d[i]
    BY ONLY <2>1
  <2> QED BY <2>2
<1>5. Manifest' = [data |-> e, synced |-> s] /\ Manifest'.data = e /\ Manifest'.synced = s
  BY <1>2, <1>3, <1>4 DEF Manifest
<1>6. PossibleLengths = s .. Len(d) /\ PossibleLengths' = s .. Len(e)
  BY <1>3, <1>5 DEF PossibleLengths
<1>7. PossibleLengths' = PossibleLengths \cup {Len(e)}
  BY <1>3, <1>4, <1>6
<1>8. ASSUME NEW k \in PossibleLengths
      PROVE  /\ LastEdit(e, k) = LastEdit(d, k) /\ ApplyEdits(e, k) = ApplyEdits(d, k)
             /\ Whole(e, k) = Whole(d, k)
  <2>1. k \in Nat /\ k <= Len(d) /\ k <= Len(e) /\ \A i \in 1 .. k : e[i] = d[i]
    BY <1>3, <1>4, <1>6
  <2>2. Whole(d, k) # {}
    BY <1>1, <1>3, ManifestFacts
  <2> QED BY <2>1, <2>2, SamePrefix
<1> QED BY <1>1, <1>2, <1>3, <1>4, <1>5, <1>7, <1>8

LEMMA AppendEditStep ==
  ASSUME NullIsNoValue, TypeInv, FilesInv, AppendEdit
  PROVE  FilesInv'
<1>1. /\ phase = "up" /\ phase' = "up" /\ edit # NULL /\ ~Appended
      /\ manifests' = AppendTo(manifests, current, edit)
      /\ UNCHANGED <<logs, tables, current, mem, imm, logfile_number, log_number,
                     manifest_file_number, next_file_number, last_sequence, version, pinned,
                     flush, merge, edit, pending_outputs, bg_error, promised>>
  BY DEF AppendEdit, numbers, background, history
<1>2. /\ DiskInv /\ NumbersInv /\ MemoryInv /\ HeldInv /\ ContentsInv /\ ManifestInv
      /\ WorkInv /\ EditInv
  BY <1>1, OpenFacts
<1>3. PICK size \in PossibleLengths : size = Len(Manifest.data)
  BY <1>2, ManifestFacts
<1>4. edit \in EditRecord /\ edit \in EditOrPiece
  BY <1>1 DEF TypeInv, MemoryTypes, EditOrPiece
<1>5. /\ Manifest'.data = Append(Manifest.data, edit)
      /\ PossibleLengths' = PossibleLengths \cup {Len(Manifest'.data)}
      /\ \A k \in PossibleLengths :
           /\ LastEdit(Manifest'.data, k) = LastEdit(Manifest.data, k)
           /\ ApplyEdits(Manifest'.data, k) = ApplyEdits(Manifest.data, k)
           /\ Whole(Manifest'.data, k) = Whole(Manifest.data, k)
      /\ current \in DOMAIN manifests'
  BY <1>1, <1>4, ManifestGrows
<1>6. PICK longer : longer = Len(Manifest'.data)
  OBVIOUS
<1>7. PICK v : v = ApplyEdits(Manifest.data, size)
  OBVIOUS
<1>8. PICK w : w = (v \ edit.deleted) \cup edit.added
  OBVIOUS
<1>9. /\ LastEdit(Manifest'.data, longer) = edit /\ ApplyEdits(Manifest'.data, longer) = w
      /\ Whole(Manifest'.data, longer) # {} /\ Manifest'.data[longer] = edit
      /\ Manifest'.data # <<>>
  <2>1. PICK d \in Seq(EditOrPiece) : d = Manifest.data
    BY <1>2, ManifestFacts
  <2>2. PICK e : e = Append(d, edit)
    OBVIOUS
  <2>3. /\ e \in Seq(EditOrPiece) /\ Len(e) = Len(d) + 1 /\ e[Len(e)] = edit
        /\ Whole(e, Len(e)) # {} /\ LastEdit(e, Len(e)) = edit
        /\ ApplyEdits(e, Len(e)) = (ApplyEdits(d, Len(d)) \ edit.deleted) \cup edit.added
    <3>1. NullIsNoValue /\ d \in Seq(EditOrPiece) /\ edit \in EditRecord /\ e = Append(d, edit)
      BY <1>4, <2>1, <2>2
    <3> QED BY ONLY <3>1, AppendedRecord
  <2>4. e = Manifest'.data /\ longer = Len(e) /\ e # <<>>
    <3>1. e = Manifest'.data /\ longer = Len(e)
      BY <1>5, <1>6, <2>1, <2>2
    <3>2. Len(e) # 0
      BY ONLY <2>3, <2>1
    <3> QED BY <3>1, <3>2
  <2> QED BY <1>3, <1>7, <1>8, <2>1, <2>3, <2>4
<1>10. /\ \A n \in edit.added : /\ n \in DOMAIN tables /\ n \in Nat /\ tables[n].synced
                                /\ n < edit.next /\ n < next_file_number
                                /\ \A e \in tables[n].data : e.seq <= edit.last
       /\ DataOf(tables, v) \subseteq DataOf(tables, w)
       /\ DataOf(tables, w) \subseteq DataOf(tables, v) \cup Known
       /\ log_number <= edit.log /\ edit.log <= logfile_number
       /\ flush # NULL => imm # NULL /\ imm = DataOf(tables, edit.added)
                          /\ edit.deleted = {} /\ edit.log = logfile_number
       /\ flush = NULL => merge # NULL /\ edit.log = log_number
  BY <1>1, <1>8, EditFacts
<1>11. /\ Described(Manifest.data, size, current, tables, logs, promised)
       /\ LastEdit(Manifest.data, size) \in EditRecord
       /\ log_number <= LastEdit(Manifest.data, size).log
       /\ LastEdit(Manifest.data, size).next <= edit.next
       /\ LastEdit(Manifest.data, size).last <= edit.last
       /\ DataOf(tables, v) \subseteq Known
  BY <1>1, <1>2, <1>3, <1>7, OpenFacts DEF EditInv
<1>12. /\ Known' = Known /\ Present' = Present /\ SafeInLog' = SafeInLog
       /\ DataOf(tables, w) \subseteq Known
  <2>1. Known' = Known /\ DataOf(tables, w) \subseteq Known
    BY <1>1, <1>10, <1>11 DEF Known, Entries
  <2> QED BY <1>1, <2>1 DEF Present, SafeInLog
<1>13. NumbersInv' /\ MemoryInv' /\ HeldInv' /\ ContentsInv' /\ WorkInv'
  <2>1. NumbersInv' /\ MemoryInv'
    BY <1>1, <1>2 DEF NumbersInv, MemoryInv, Entries
  <2>2. HeldInv' /\ WorkInv'
    BY <1>1, <1>2 DEF HeldInv, Complete, Entries, WorkInv
  <2>3. ContentsInv'
    BY <1>1, <1>2, <1>12 DEF ContentsInv
  <2> QED BY <2>1, <2>2, <2>3
<1>14. EditInv'
  <2>1. /\ \/ /\ flush # NULL
              /\ edit.added = {flush.number} /\ edit.deleted = {} /\ edit.log = logfile_number
           \/ /\ flush = NULL /\ merge # NULL
              /\ edit.added = {merge.number} /\ edit.deleted = merge.inputs
              /\ edit.log = log_number
        /\ edit.log < edit.next /\ current < edit.next
        /\ edit.next <= next_file_number /\ edit.last <= last_sequence
        /\ \A n \in edit.added : /\ tables[n].synced /\ n < edit.next
                                 /\ \A e \in tables[n].data : e.seq <= edit.last
    BY <1>1, <1>2 DEF EditInv
  <2>2. \A k \in PossibleLengths' : /\ LastEdit(Manifest'.data, k).next <= edit.next
                                    /\ LastEdit(Manifest'.data, k).last <= edit.last
    <3>1. \A k \in PossibleLengths : /\ LastEdit(Manifest.data, k).next <= edit.next
                                     /\ LastEdit(Manifest.data, k).last <= edit.last
      BY <1>1, <1>2 DEF EditInv
    <3>2. edit.next <= edit.next /\ edit.last <= edit.last
      BY <1>4 DEF EditRecord
    <3> QED BY <1>5, <1>6, <1>9, <3>1, <3>2
  <2> QED BY <1>1, <2>1, <2>2 DEF EditInv
<1>15. ManifestInv'
  <2>1. ASSUME NEW k \in PossibleLengths'
        PROVE  LET last == LastEdit(Manifest'.data, k)
               IN /\ log_number <= last.log /\ last.log <= logfile_number
                  /\ last.next <= next_file_number /\ last.last <= last_sequence
                  /\ DataOf(tables, ApplyEdits(Manifest'.data, k)) \subseteq Known
    <3>1. CASE k \in PossibleLengths
      BY <1>1, <1>5, <3>1, OpenFacts
    <3>2. CASE k = longer
      BY <1>1, <1>2, <1>9, <1>10, <1>12, <3>2 DEF EditInv
    <3> QED BY <1>5, <1>6, <3>1, <3>2
  <2>2. promised \subseteq Ids(DataOf(tables, w)) \cup Ids(Entries(imm))
                             \cup Ids(SafeInLog)
    <3>1. promised \subseteq Ids(DataOf(tables, v)) \cup Ids(Entries(imm))
                               \cup Ids(SafeInLog)
      BY <1>2, <1>3, <1>7 DEF ManifestInv, VersionAt
    <3>2. Ids(DataOf(tables, v)) \subseteq Ids(DataOf(tables, w))
      BY <1>10, IdsGrow
    <3> QED BY <3>1, <3>2
  <2>3. ~bg_error => w = (version \ edit.deleted) \cup edit.added
    BY <1>1, <1>2, <1>3, <1>7, <1>8 DEF ManifestInv, VersionAt
  <2>4. Appended'
    BY <1>1, <1>6, <1>9 DEF Appended, Last
  <2>5. Len(Manifest'.data) = longer /\ ApplyEdits(Manifest'.data, longer) = w
    BY <1>6, <1>9
  <2>6. /\ logs' = logs /\ tables' = tables /\ imm' = imm /\ log_number' = log_number
        /\ logfile_number' = logfile_number /\ next_file_number' = next_file_number
        /\ last_sequence' = last_sequence /\ version' = version /\ edit' = edit
        /\ bg_error' = bg_error /\ promised' = promised /\ edit # NULL
    BY <1>1
  <2> QED BY ONLY <1>12, <2>1, <2>2, <2>3, <2>4, <2>5, <2>6 DEF ManifestInv, VersionAt, Entries
<1>16. DiskInv'
  <2>1. ASSUME NEW k \in PossibleLengths'
        PROVE  Described(Manifest'.data, k, current, tables, logs, promised)
    <3>1. CASE k \in PossibleLengths
      <4>1. Described(Manifest.data, k, current, tables, logs, promised)
        BY <1>2, <3>1 DEF DiskInv
      <4> QED BY <1>5, <3>1, <4>1 DEF Described
    <3>2. CASE k = longer
      <4>1. edit.log < edit.next /\ current < edit.next
        BY <1>1, <1>2 DEF EditInv
      <4>2. ASSUME NEW n \in w
            PROVE  /\ n \in DOMAIN tables /\ tables[n].synced /\ n < edit.next
                   /\ \A e \in tables[n].data : e.seq <= edit.last
        <5>1. CASE n \in edit.added
          BY <1>10, <5>1
        <5>2. CASE n \in v
          <6>1. /\ n \in DOMAIN tables /\ tables[n].synced
                /\ n < LastEdit(Manifest.data, size).next
                /\ \A e \in tables[n].data : e.seq <= LastEdit(Manifest.data, size).last
            BY <1>7, <1>11, <5>2 DEF Described
          <6>2. n \in Nat /\ \A e \in tables[n].data : e.seq \in Nat
            BY <6>1, TableFacts DEF TableFile, Entry
          <6> QED BY <1>4, <1>11, <6>1, <6>2 DEF EditRecord
        <5> QED BY <1>8, <5>1, <5>2
      <4>3. promised \subseteq Ids(DataOf(tables, w)) \cup Ids(SyncedData(logs, edit.log))
        <5>1. Ids(DataOf(tables, v)) \subseteq Ids(DataOf(tables, w))
          BY <1>10, IdsGrow
        <5>2. CASE flush # NULL
          <6>1. promised \subseteq Ids(DataOf(tables, v)) \cup Ids(Entries(imm))
                                     \cup Ids(SafeInLog)
            BY <1>2, <1>3, <1>7 DEF ManifestInv, VersionAt
          <6>2. Entries(imm) \subseteq DataOf(tables, w)
            <7>1. DataOf(tables, edit.added) \subseteq DataOf(tables, w)
              BY <1>8 DEF DataOf
            <7> QED BY <1>10, <5>2, <7>1 DEF Entries
          <6>3. SafeInLog \subseteq SyncedData(logs, edit.log)
            <7>1. logfile_number \in From(logs, logfile_number)
              BY <1>2 DEF NumbersInv, From, TypeInv, MemoryTypes
            <7> QED BY <1>10, <5>2, <7>1 DEF SyncedData, SafeInLog
          <6> QED BY <5>1, <6>1, <6>2, <6>3, IdsGrow
        <5>3. CASE flush = NULL
          <6>1. promised \subseteq Ids(DataOf(tables, v))
                                     \cup Ids(SyncedData(logs, LastEdit(Manifest.data, size).log))
            BY <1>7, <1>11 DEF Described
          <6>2. SyncedData(logs, LastEdit(Manifest.data, size).log) \subseteq SyncedData(logs, edit.log)
            <7>1. edit.log = log_number
              BY <1>10, <5>3
            <7>2. \A n \in From(logs, LastEdit(Manifest.data, size).log) : n \in From(logs, edit.log)
              BY <1>11, <7>1, LogFacts DEF From, EditRecord, TypeInv, MemoryTypes
            <7> QED BY <7>2 DEF SyncedData
          <6> QED BY <5>1, <6>1, <6>2, IdsGrow
        <5> QED BY <5>2, <5>3
      <4>4. NumbersAreUnique(DataOf(tables, w) \cup LogData(logs, edit.log))
        <5>1. LogData(logs, edit.log) \subseteq Present
          <6>1. edit.log \in Nat /\ log_number <= edit.log
            BY <1>4, <1>10 DEF EditRecord
          <6> QED BY <1>2, <6>1, LogsArePresent
        <5> QED BY <1>2, <1>12, <5>1, FewerNumbers DEF ContentsInv, Present
      <4> QED BY <1>9, <3>2, <4>1, <4>2, <4>3, <4>4 DEF Described
    <3> QED BY <1>5, <1>6, <3>1, <3>2
  <2> QED BY <1>1, <1>5, <2>1 DEF DiskInv
<1> QED
  BY <1>1, <1>13, <1>14, <1>15, <1>16
  DEF FilesInv, OpenInv, ClosedInv, ReplayInv, SnapshotInv, Snapshotting

\* After a step, the manifest says at one length what it said at another.
SameRecords(later, k, edits, j) ==
  /\ LastEdit(later, k) = LastEdit(edits, j) /\ ApplyEdits(later, k) = ApplyEdits(edits, j)
  /\ Whole(later, k) = Whole(edits, j)

\* A step that does no more than to sync the manifest or leave a piece in it.
SaysNoMore ==
  /\ current' = current /\ current \in DOMAIN manifests'
  /\ \A k \in PossibleLengths' :
       \E j \in PossibleLengths : SameRecords(Manifest'.data, k, Manifest.data, j)
  /\ SameRecords(Manifest'.data, Len(Manifest'.data), Manifest.data, Len(Manifest.data))
  /\ UNCHANGED <<logs, tables, phase, mem, imm, logfile_number, log_number, manifest_file_number,
                 next_file_number, last_sequence, version, pinned, promised>>
  /\ \/ edit' = edit /\ Appended' = Appended /\ bg_error' = bg_error
     \/ bg_error'

LEMMA SaysNoMoreFacts ==
  ASSUME TypeInv, FilesInv, phase = "up", SaysNoMore
  PROVE  /\ DiskInv' /\ NumbersInv' /\ MemoryInv' /\ HeldInv' /\ ContentsInv' /\ ManifestInv'
<1>1. /\ DiskInv /\ NumbersInv /\ MemoryInv /\ HeldInv /\ ContentsInv /\ ManifestInv
      /\ WorkInv /\ EditInv
  BY OpenFacts
<1>2. /\ current' = current /\ current \in DOMAIN manifests' /\ logs' = logs /\ tables' = tables
      /\ mem' = mem /\ imm' = imm /\ logfile_number' = logfile_number /\ log_number' = log_number
      /\ manifest_file_number' = manifest_file_number /\ next_file_number' = next_file_number
      /\ last_sequence' = last_sequence /\ version' = version /\ pinned' = pinned
      /\ promised' = promised
  BY DEF SaysNoMore
<1>3. Known' = Known /\ Present' = Present /\ SafeInLog' = SafeInLog
  BY <1>2 DEF Known, Entries, Present, SafeInLog
<1>4. NumbersInv' /\ MemoryInv' /\ ContentsInv' /\ HeldInv'
  BY <1>1, <1>2, <1>3 DEF NumbersInv, MemoryInv, ContentsInv, HeldInv, Complete, Entries
<1>5. DiskInv'
  <2>1. ASSUME NEW k \in PossibleLengths'
        PROVE  Described(Manifest'.data, k, current, tables, logs, promised)
    <3>1. PICK j \in PossibleLengths : SameRecords(Manifest'.data, k, Manifest.data, j)
      BY DEF SaysNoMore
    <3>2. Described(Manifest.data, j, current, tables, logs, promised)
      BY <1>1 DEF DiskInv
    <3> QED BY <3>1, <3>2 DEF Described, SameRecords
  <2> QED BY <1>2, <2>1 DEF DiskInv
<1>6. ManifestInv'
  <2>1. ASSUME NEW k \in PossibleLengths'
        PROVE  LET last == LastEdit(Manifest'.data, k)
               IN /\ log_number <= last.log /\ last.log <= logfile_number
                  /\ last.next <= next_file_number /\ last.last <= last_sequence
                  /\ DataOf(tables, ApplyEdits(Manifest'.data, k)) \subseteq Known
    <3>1. PICK j \in PossibleLengths : SameRecords(Manifest'.data, k, Manifest.data, j)
      BY DEF SaysNoMore
    <3> QED BY <3>1, OpenFacts DEF SameRecords
  <2>2. PICK v : v = ApplyEdits(Manifest.data, Len(Manifest.data))
    OBVIOUS
  <2>3. ApplyEdits(Manifest'.data, Len(Manifest'.data)) = v
    BY <2>2 DEF SaysNoMore, SameRecords
  <2>4. promised \subseteq Ids(DataOf(tables, v)) \cup Ids(Entries(imm))
                             \cup Ids(SafeInLog)
    BY <1>1, <2>2 DEF ManifestInv, VersionAt
  <2>5. ~bg_error' => v = IF edit' # NULL /\ Appended'
                          THEN (version \ edit'.deleted) \cup edit'.added ELSE version
    <3> SUFFICES ASSUME ~bg_error'
                 PROVE  v = IF edit' # NULL /\ Appended'
                            THEN (version \ edit'.deleted) \cup edit'.added ELSE version
      OBVIOUS
    <3>1. edit' = edit /\ Appended' = Appended /\ bg_error' = bg_error
      BY DEF SaysNoMore
    <3>2. ~bg_error => v = IF edit # NULL /\ Appended
                           THEN (version \ edit.deleted) \cup edit.added ELSE version
      BY <1>1, <2>2 DEF ManifestInv, VersionAt
    <3>3. ~bg_error
      BY <3>1, Zenon
    <3>4. v = IF edit # NULL /\ Appended
              THEN (version \ edit.deleted) \cup edit.added ELSE version
      BY ONLY <3>2, <3>3, Zenon
    <3> QED BY ONLY <3>1, <3>4, Zenon
  <2> QED BY ONLY <1>2, <1>3, <2>1, <2>3, <2>4, <2>5 DEF ManifestInv, VersionAt, Entries
<1> QED BY <1>4, <1>5, <1>6

LEMMA SyncEditStep ==
  ASSUME NullIsNoValue, TypeInv, FilesInv, SyncEdit
  PROVE  FilesInv'
<1>1. /\ phase = "up" /\ phase' = "up" /\ edit # NULL
      /\ manifests' = SyncFile(manifests, current)
      /\ UNCHANGED <<logs, tables, current, phase, mem, imm, logfile_number, log_number,
                     manifest_file_number, next_file_number, last_sequence, version, pinned,
                     flush, merge, edit, pending_outputs, bg_error, promised>>
  BY DEF SyncEdit, numbers, background, history
<1>2. /\ DiskInv /\ WorkInv /\ EditInv
  BY <1>1, OpenFacts
<1>3. PICK size \in PossibleLengths : size = Len(Manifest.data)
  BY <1>2, ManifestFacts
<1>4. /\ current \in DOMAIN manifests' /\ Manifest'.data = Manifest.data /\ PossibleLengths' = {size}
  <2>1. HasFiles(manifests, EditOrPiece) /\ current \in DOMAIN manifests
    BY <1>2 DEF TypeInv, DiskTypes, DiskInv
  <2>2. /\ DOMAIN manifests' = DOMAIN manifests
        /\ manifests'[current] = [data |-> manifests[current].data,
                                  synced |-> Len(manifests[current].data)]
    BY <1>1, <2>1, SyncFacts
  <2>3. Manifest'.data = Manifest.data /\ Manifest'.synced = size
    BY <1>1, <1>3, <2>2 DEF Manifest
  <2>4. size \in Nat
    BY <1>2, <1>3, ManifestFacts
  <2>5. PossibleLengths' = size .. size
    BY <1>3, <2>3 DEF PossibleLengths
  <2> QED BY <2>1, <2>2, <2>3, <2>4, <2>5
<1>5. Appended' = Appended
  BY <1>1, <1>4 DEF Appended
<1>6. SaysNoMore
  <2>1. \A k \in PossibleLengths' :
          \E j \in PossibleLengths : SameRecords(Manifest'.data, k, Manifest.data, j)
    BY <1>3, <1>4 DEF SameRecords
  <2>2. SameRecords(Manifest'.data, Len(Manifest'.data), Manifest.data, Len(Manifest.data))
    BY <1>4 DEF SameRecords
  <2> QED BY <1>1, <1>4, <1>5, <2>1, <2>2 DEF SaysNoMore
<1>7. DiskInv' /\ NumbersInv' /\ MemoryInv' /\ HeldInv' /\ ContentsInv' /\ ManifestInv'
  BY <1>1, <1>6, SaysNoMoreFacts
<1>8. WorkInv'
  BY <1>1, <1>2 DEF WorkInv
<1>9. EditInv'
  <2>1. PossibleLengths' \subseteq PossibleLengths
    BY <1>3, <1>4
  <2> QED BY <1>1, <1>2, <1>4, <2>1 DEF EditInv
<1> QED
  BY <1>1, <1>7, <1>8, <1>9
  DEF FilesInv, OpenInv, ClosedInv, ReplayInv, SnapshotInv, Snapshotting

LEMMA FailEditStep ==
  ASSUME NullIsNoValue, TypeInv, FilesInv, FailEdit
  PROVE  FilesInv'
<1>1. /\ phase = "up" /\ phase' = "up" /\ edit # NULL /\ bg_error' /\ EndBackgroundWork
      /\ manifests' = manifests \/ manifests' = AppendTo(manifests, current, NULL)
      /\ UNCHANGED <<logs, tables, current, phase, mem, imm, logfile_number, log_number,
                     manifest_file_number, next_file_number, last_sequence, version, pinned,
                     promised>>
  BY DEF FailEdit, numbers
<1>2. /\ DiskInv /\ WorkInv /\ EditInv
  BY <1>1, OpenFacts
<1>3. PICK size \in PossibleLengths : size = Len(Manifest.data)
  BY <1>2, ManifestFacts
<1>4. SaysNoMore
  <2>1. CASE manifests' = manifests
    <3>1. Manifest' = Manifest /\ PossibleLengths' = PossibleLengths
      BY <1>1, <2>1, SameManifest
    <3> QED BY <1>1, <1>2, <2>1, <3>1 DEF SaysNoMore, SameRecords, DiskInv
  <2>2. CASE manifests' = AppendTo(manifests, current, NULL)
    <3>1. NULL \in EditOrPiece
      BY DEF EditOrPiece
    <3>2. /\ Manifest'.data = Append(Manifest.data, NULL)
          /\ PossibleLengths' = PossibleLengths \cup {Len(Manifest'.data)}
          /\ \A k \in PossibleLengths :
               /\ LastEdit(Manifest'.data, k) = LastEdit(Manifest.data, k)
               /\ ApplyEdits(Manifest'.data, k) = ApplyEdits(Manifest.data, k)
               /\ Whole(Manifest'.data, k) = Whole(Manifest.data, k)
          /\ current \in DOMAIN manifests'
      BY <1>1, <2>2, <3>1, ManifestGrows
    <3>3. SameRecords(Manifest'.data, Len(Manifest'.data), Manifest.data, Len(Manifest.data))
      <4>1. PICK d \in Seq(EditOrPiece) : d = Manifest.data /\ Whole(d, Len(d)) # {}
        BY <1>2, ManifestFacts
      <4>2. PICK e : e = Append(d, NULL)
        OBVIOUS
      <4>3. /\ Whole(e, Len(e)) = Whole(d, Len(d))
            /\ ApplyEdits(e, Len(e)) = ApplyEdits(d, Len(d))
            /\ LastEdit(e, Len(e)) = LastEdit(d, Len(d))
        BY <4>1, <4>2, AppendedPiece
      <4>4. e = Manifest'.data
        BY <3>2, <4>1, <4>2
      <4> QED BY <4>1, <4>3, <4>4 DEF SameRecords
    <3>4. \A k \in PossibleLengths' :
            \E j \in PossibleLengths : SameRecords(Manifest'.data, k, Manifest.data, j)
      BY <1>3, <3>2, <3>3 DEF SameRecords
    <3> QED BY <1>1, <3>2, <3>3, <3>4 DEF SaysNoMore
  <2> QED BY <1>1, <2>1, <2>2
<1>5. DiskInv' /\ NumbersInv' /\ MemoryInv' /\ HeldInv' /\ ContentsInv' /\ ManifestInv'
  BY <1>1, <1>4, SaysNoMoreFacts
<1>6. WorkInv'
  <2>1. CASE flush # NULL
    BY <1>1, <1>2, <2>1 DEF EndBackgroundWork, WorkInv
  <2>2. CASE flush = NULL
    BY <1>1, <1>2, <2>2 DEF EndBackgroundWork, WorkInv
  <2> QED BY <2>1, <2>2
<1>7. EditInv'
  BY <1>1 DEF EndBackgroundWork, EditInv
<1> QED
  BY <1>1, <1>5, <1>6, <1>7
  DEF FilesInv, OpenInv, ClosedInv, ReplayInv, SnapshotInv, Snapshotting

LEMMA InstallEditStep ==
  ASSUME NullIsNoValue, TypeInv, FilesInv, InstallEdit
  PROVE  FilesInv'
<1>1. /\ phase = "up" /\ phase' = "up" /\ edit # NULL /\ Appended
      /\ Manifest.synced = Len(Manifest.data)
      /\ version' = (version \ edit.deleted) \cup edit.added
      /\ log_number' = edit.log
      /\ imm' = (IF flush # NULL THEN NULL ELSE imm)
      /\ EndBackgroundWork
      /\ bg_error => UNCHANGED <<logs, tables, manifests>>
      /\ ~bg_error => DeleteObsoleteFiles(version', log_number', pending_outputs')
      /\ UNCHANGED <<current, mem, logfile_number, manifest_file_number, next_file_number,
                     last_sequence, pinned, bg_error, promised>>
  BY DEF InstallEdit, history
<1>2. /\ DiskInv /\ NumbersInv /\ MemoryInv /\ HeldInv /\ ContentsInv /\ ManifestInv
      /\ WorkInv /\ EditInv
  BY <1>1, OpenFacts
<1>3. PICK size \in Nat : size = Len(Manifest.data) /\ PossibleLengths = {size}
  <2>1. PICK n \in Nat : n = Len(Manifest.data)
    BY <1>2, ManifestFacts
  <2>2. PossibleLengths = n .. n
    BY <1>1, <2>1 DEF PossibleLengths
  <2> QED BY <2>1, <2>2
<1>4. PICK v : v = ApplyEdits(Manifest.data, size)
  OBVIOUS
<1>5. /\ edit \in EditRecord
      /\ \A n \in edit.added : /\ n \in DOMAIN tables /\ n \in Nat /\ tables[n].synced
                               /\ n < edit.next /\ n < next_file_number
                               /\ \A e \in tables[n].data : e.seq <= edit.last
      /\ DataOf(tables, edit.added) \subseteq Known
      /\ DataOf(tables, version) \subseteq DataOf(tables, version')
      /\ DataOf(tables, version') \subseteq DataOf(tables, version) \cup Known
      /\ log_number <= edit.log /\ edit.log <= logfile_number
      /\ flush # NULL => imm # NULL /\ imm = DataOf(tables, edit.added)
                         /\ edit.deleted = {} /\ edit.log = logfile_number
      /\ flush = NULL => merge # NULL /\ edit.log = log_number
  BY <1>1, EditFacts
<1>6. /\ LastEdit(Manifest.data, size) = edit /\ edit.added \subseteq v
      /\ ~bg_error => v = version'
  <2>1. PICK d \in Seq(EditOrPiece) : d = Manifest.data /\ Whole(d, Len(d)) # {}
    BY <1>2, ManifestFacts
  <2>2. d[Len(d)] = edit /\ edit # NULL
    BY <1>1, <2>1 DEF Appended, Last
  <2>3. Len(d) \in Whole(d, Len(d)) /\ \A j \in Whole(d, Len(d)) : ~(j > Len(d)) /\ j \in Nat
    <3>1. Len(d) \in Nat /\ Len(d) # 0
      BY <2>1 DEF Whole
    <3> QED BY <2>2, <3>1 DEF Whole
  <2>4. LastEdit(d, Len(d)) = edit
    <3>1. /\ Max(Whole(d, Len(d))) \in Whole(d, Len(d))
          /\ \A i \in Whole(d, Len(d)) : i <= Max(Whole(d, Len(d)))
      BY <2>1, LastFacts
    <3>2. Max(Whole(d, Len(d))) = Len(d)
      BY <2>3, <3>1
    <3> QED BY <2>2, <3>2 DEF LastEdit
  <2>5. \A n \in edit.added : n \in ApplyEdits(d, Len(d))
    BY <2>2, <2>3, InEdits
  <2>6. ~bg_error => ApplyEdits(d, Len(d)) = version'
    BY <1>1, <1>2, <2>1 DEF ManifestInv, VersionAt
  <2> QED BY <1>3, <1>4, <2>1, <2>4, <2>5, <2>6
<1>7. /\ edit' = NULL
      /\ flush # NULL => flush' = NULL /\ merge' = merge /\ pending_outputs' = pending_outputs
      /\ flush = NULL => flush' = NULL /\ merge' = NULL
  BY <1>1 DEF EndBackgroundWork
<1>8. /\ edit.log \in Nat /\ log_number \in Nat /\ logfile_number \in Nat
      /\ log_number <= edit.log /\ edit.log <= logfile_number /\ edit.log <= edit.log
      /\ edit.next <= next_file_number /\ edit.last <= last_sequence
  BY <1>1, <1>2, <1>5 DEF EditRecord, TypeInv, MemoryTypes, EditInv
<1>9. /\ DOMAIN logs' \subseteq DOMAIN logs /\ \A n \in DOMAIN logs' : logs'[n] = logs[n]
      /\ \A n \in From(logs, edit.log) : n \in DOMAIN logs'
  <2>1. CASE bg_error
    BY <1>1, <2>1 DEF From
  <2>2. CASE ~bg_error
    BY <1>1, <2>2 DEF DeleteObsoleteFiles, Keep, From
  <2> QED BY <2>1, <2>2
<1>10. /\ DOMAIN tables' \subseteq DOMAIN tables /\ \A n \in DOMAIN tables' : tables'[n] = tables[n]
       /\ \A n \in DOMAIN tables :
            n \in version' \cup Entries(pinned) \cup v \cup pending_outputs' => n \in DOMAIN tables'
  <2>1. CASE bg_error
    BY <1>1, <2>1
  <2>2. CASE ~bg_error
    BY <1>1, <1>6, <2>2 DEF DeleteObsoleteFiles, Keep
  <2> QED BY <2>1, <2>2
<1>11. Manifest' = Manifest /\ current \in DOMAIN manifests'
  <2>1. CASE bg_error
    BY <1>1, <1>2, <2>1 DEF Manifest, DiskInv
  <2>2. CASE ~bg_error
    <3>1. manifest_file_number = current /\ current \in DOMAIN manifests /\ current \in Nat
      BY <1>2 DEF NumbersInv, DiskInv, TypeInv, DiskTypes
    <3>2. current >= manifest_file_number
      BY <3>1
    <3> QED BY <1>1, <2>2, <3>1, <3>2 DEF DeleteObsoleteFiles, Keep, Manifest
  <2> QED BY <2>1, <2>2
<1>12. PossibleLengths' = {size} /\ PossibleLengths' = PossibleLengths
  BY <1>3, <1>11 DEF PossibleLengths
<1>13. \A n \in version' : n \in DOMAIN tables /\ tables[n].synced /\ n \in DOMAIN tables'
                           /\ n < next_file_number
  BY <1>1, <1>2, <1>5, <1>10 DEF HeldInv, Complete
<1>14. DataOf(tables', version') = DataOf(tables, version')
  BY <1>10, <1>13, DataStays
<1>15. Known' = Known
  <2>1. CASE flush # NULL
    <3>1. imm' = NULL /\ imm = DataOf(tables, edit.added) /\ mem' = mem /\ imm # NULL
      BY <1>1, <1>5, <2>1
    <3>2. DataOf(tables, edit.added) \subseteq DataOf(tables, version')
      BY <1>1 DEF DataOf
    <3> QED BY <1>5, <1>14, <3>1, <3>2 DEF Known, Entries
  <2>2. CASE flush = NULL
    <3>1. imm' = imm /\ mem' = mem
      BY <1>1, <2>2
    <3>2. DataOf(tables, edit.added) \subseteq DataOf(tables, version')
      BY <1>1 DEF DataOf
    <3>3. DataOf(tables, version') \subseteq DataOf(tables, version)
      <4>1. PICK inputs : inputs = merge.inputs
        OBVIOUS
      <4>2. /\ inputs \subseteq version /\ edit.added = {merge.number}
            /\ tables[merge.number].data = DataOf(tables, inputs)
        BY <1>1, <1>2, <1>5, <2>2, <4>1 DEF WorkInv, EditInv
      <4>3. DataOf(tables, edit.added) = DataOf(tables, inputs)
        BY <4>2 DEF DataOf
      <4>4. DataOf(tables, inputs) \subseteq DataOf(tables, version)
        BY <4>2 DEF DataOf
      <4>5. DataOf(tables, version') \subseteq DataOf(tables, version) \cup DataOf(tables, edit.added)
        BY <1>1 DEF DataOf
      <4> QED BY <4>3, <4>4, <4>5
    <3> QED BY <1>5, <1>14, <3>1, <3>3 DEF Known, Entries
  <2> QED BY <2>1, <2>2
<1>16. /\ Described(Manifest.data, size, current, tables, logs, promised)
       /\ DataOf(tables, v) \subseteq Known
  BY <1>1, <1>3, <1>4, OpenFacts
<1>17. \A n \in v : n \in DOMAIN tables' /\ tables'[n] = tables[n]
  BY <1>4, <1>10, <1>16 DEF Described
<1>18. DataOf(tables', v) = DataOf(tables, v)
  BY <1>17, DataStays
<1>19. NumbersInv'
  <2>1. logfile_number \in From(logs, edit.log)
    BY <1>2, <1>8 DEF NumbersInv, From
  <2>2. logfile_number \in DOMAIN logs'
    BY <1>9, <2>1
  <2> QED BY <1>1, <1>2, <1>8, <1>9, <2>2 DEF NumbersInv
<1>20. logs'[logfile_number] = logs[logfile_number] /\ logfile_number \in DOMAIN logs'
  BY <1>1, <1>9, <1>19 DEF NumbersInv
<1>21. MemoryInv' /\ SafeInLog' = SafeInLog
  <2>1. imm' = NULL => log_number' = logfile_number
    BY <1>1, <1>2, <1>5 DEF MemoryInv
  <2> QED BY <1>1, <1>20, <2>1 DEF MemoryInv, SafeInLog
<1>22. HeldInv'
  <2>1. \A n \in Entries(pinned) : n \in DOMAIN tables' /\ tables'[n].synced /\ n < next_file_number
    BY <1>2, <1>10 DEF HeldInv, Complete
  <2>2. \A n \in version' : n \in DOMAIN tables' /\ tables'[n].synced /\ n < next_file_number
    BY <1>10, <1>13
  <2> QED BY <1>1, <2>1, <2>2 DEF HeldInv, Complete, Entries
<1>23. ContentsInv'
  <2>1. LogData(logs', log_number') \subseteq LogData(logs, log_number)
    <3>1. LogData(logs', edit.log) \subseteq LogData(logs, edit.log)
      BY <1>9 DEF LogData, From
    <3>2. LogData(logs, edit.log) \subseteq LogData(logs, log_number)
      <4>1. \A n \in From(logs, edit.log) : n \in From(logs, log_number)
        BY <1>8, LogFacts DEF From
      <4> QED BY <4>1 DEF LogData
    <3> QED BY <1>1, <3>1, <3>2
  <2>2. Present' \subseteq Present
    BY <1>15, <2>1 DEF Present
  <2> QED BY <1>1, <1>2, <1>15, <2>2, FewerNumbers DEF ContentsInv
<1>24. ManifestInv'
  <2>1. \A k \in PossibleLengths' :
          LET last == LastEdit(Manifest'.data, k)
          IN /\ log_number' <= last.log /\ last.log <= logfile_number
             /\ last.next <= next_file_number /\ last.last <= last_sequence
             /\ DataOf(tables', ApplyEdits(Manifest'.data, k)) \subseteq Known
    BY <1>1, <1>4, <1>6, <1>8, <1>11, <1>12, <1>16, <1>18
  <2>2. promised \subseteq Ids(DataOf(tables', v)) \cup Ids(Entries(imm'))
                             \cup Ids(SafeInLog)
    <3>1. promised \subseteq Ids(DataOf(tables, v)) \cup Ids(Entries(imm))
                               \cup Ids(SafeInLog)
      BY <1>2, <1>3, <1>4 DEF ManifestInv, VersionAt
    <3>2. CASE flush # NULL
      <4>1. Entries(imm) \subseteq DataOf(tables, v)
        <5>1. DataOf(tables, edit.added) \subseteq DataOf(tables, v)
          BY <1>6 DEF DataOf
        <5> QED BY <1>5, <3>2, <5>1 DEF Entries
      <4>2. Ids(Entries(imm)) \subseteq Ids(DataOf(tables, v))
        BY <4>1, IdsGrow
      <4> QED BY <1>18, <3>1, <4>2
    <3>3. CASE flush = NULL
      BY <1>1, <1>18, <3>1, <3>3 DEF Entries
    <3> QED BY <3>2, <3>3
  <2>3. ~bg_error' => v = version'
    BY <1>1, <1>6
  <2>4. ApplyEdits(Manifest'.data, Len(Manifest'.data)) = v
    BY <1>3, <1>4, <1>11
  <2>5. /\ logfile_number' = logfile_number /\ next_file_number' = next_file_number
        /\ last_sequence' = last_sequence /\ promised' = promised
        /\ logs'[logfile_number] = logs[logfile_number] /\ edit' = NULL
    BY <1>1, <1>7, <1>20
  <2> QED BY ONLY <1>15, <1>21, <2>1, <2>2, <2>3, <2>4, <2>5 DEF ManifestInv, VersionAt, Entries
<1>25. WorkInv'
  <2>1. flush' = NULL
    BY <1>7
  <2>2. ASSUME merge' # NULL
        PROVE  /\ merge'.number \in DOMAIN tables' \ version'
               /\ merge'.number < next_file_number'
               /\ merge'.number \in pending_outputs'
               /\ merge'.inputs \subseteq version'
               /\ tables'[merge'.number].data = DataOf(tables', merge'.inputs)
    <3>1. flush # NULL /\ merge' = merge /\ pending_outputs' = pending_outputs
      BY <1>7, <2>2
    <3>2. PICK n \in Nat, inputs \in SUBSET Nat : n = merge.number /\ inputs = merge.inputs
      BY <2>2, <3>1 DEF TypeInv, MemoryTypes, Merges
    <3>3. /\ n \in DOMAIN tables \ version /\ n < next_file_number
          /\ n \in pending_outputs /\ inputs \subseteq version
          /\ tables[n].data = DataOf(tables, inputs) /\ flush.number # n
      BY <1>2, <2>2, <3>1, <3>2 DEF WorkInv
    <3>4. edit.added = {flush.number} /\ edit.deleted = {}
      BY <1>1, <1>2, <3>1 DEF EditInv
    <3>5. n \notin version' /\ inputs \subseteq version' /\ n \in DOMAIN tables'
      BY <1>1, <1>10, <3>1, <3>3, <3>4
    <3>6. DataOf(tables', inputs) = DataOf(tables, inputs)
      <4>1. \A m \in inputs : tables'[m].data = tables[m].data
        BY <1>10, <1>13, <3>5
      <4> QED BY <4>1, DataStays
    <3>7. tables'[n].data = DataOf(tables', inputs)
      BY <1>10, <3>3, <3>5, <3>6
    <3> QED BY <1>1, <3>1, <3>2, <3>3, <3>5, <3>7
  <2> QED BY ONLY <2>1, <2>2 DEF WorkInv
<1>26. EditInv'
  BY <1>7 DEF EditInv
<1>27. DiskInv'
  <2>1. PICK first \in Nat : first = edit.log /\ first = LastEdit(Manifest.data, size).log
    BY <1>6, <1>8
  <2>2. SyncedData(logs, first) \subseteq SyncedData(logs', first)
    <3>1. \A n \in From(logs, first) :
            n \in From(logs', first) /\ SurelyRead(logs[n]) \subseteq SurelyRead(logs'[n])
      BY <1>9, <2>1 DEF From
    <3> QED BY <3>1, SyncedGrows
  <2>3. LogData(logs', first) \subseteq LogData(logs, first)
    BY <1>9 DEF LogData, From
  <2>4. LogData(logs, first) \subseteq Present
    BY <1>2, <1>8, <2>1, LogsArePresent
  <2>5. NumbersAreUnique(DataOf(tables, ApplyEdits(Manifest.data, size)) \cup LogData(logs', first))
    BY <1>2, <1>4, <1>16, <2>3, <2>4, FewerNumbers DEF ContentsInv, Present
  <2>6. Described(Manifest.data, size, current, tables', logs', promised)
    BY <1>4, <1>16, <1>17, <2>1, <2>2, <2>5, DescribedStays
  <2> QED BY <1>1, <1>11, <1>12, <2>6 DEF DiskInv
<1> QED
  BY <1>1, <1>19, <1>21, <1>22, <1>23, <1>24, <1>25, <1>26, <1>27
  DEF FilesInv, OpenInv, ClosedInv, ReplayInv, SnapshotInv, Snapshotting

-----------------------------------------------------------------------------
(* Crash, and DB::Open.                                                    *)

LEMMA CrashStep ==
  ASSUME NullIsNoValue, TypeInv, TypeInv', FilesInv, Crash
  PROVE  FilesInv'
<1>1. /\ phase' = "down" /\ mem' = {} /\ imm' = NULL /\ pinned' = NULL
      /\ flush' = NULL /\ merge' = NULL /\ pending_outputs' = {} /\ bg_error' = FALSE
      /\ logs' \in Survivors(logs) /\ manifests' \in Survivors(manifests)
      /\ UNCHANGED <<current, promised>>
  BY DEF Crash
<1>2. DiskInv /\ HasFiles(logs, Entry) /\ HasFiles(manifests, EditOrPiece)
  BY DEF FilesInv, TypeInv, DiskTypes
<1>3. /\ DOMAIN logs' = DOMAIN logs /\ \A n \in DOMAIN logs : Remains(logs[n], logs'[n])
      /\ DOMAIN manifests' = DOMAIN manifests
      /\ \A n \in DOMAIN manifests : Remains(manifests[n], manifests'[n])
  BY <1>1, <1>2, SurvivorsFacts
<1>4. /\ Manifest \in [data : Seq(EditOrPiece), synced : Nat]
      /\ Manifest.synced <= Len(Manifest.data)
      /\ Remains(Manifest, Manifest')
  BY <1>1, <1>2, <1>3, ManifestFacts DEF Manifest, DiskInv
<1>5. PICK d \in Seq(EditOrPiece), s \in Nat : Manifest.data = d /\ Manifest.synced = s /\ s <= Len(d)
  BY <1>4
<1>6. PICK k \in s .. Len(d) : Manifest' = [data |-> SubSeq(d, 1, k), synced |-> k]
  BY <1>4, <1>5 DEF Remains
<1>7. PICK e \in Seq(EditOrPiece) :
        /\ e = SubSeq(d, 1, k) /\ Len(e) = k /\ \A i \in 1 .. k : e[i] = d[i]
        /\ k \in Nat /\ k <= Len(d)
  <2>1. k \in Nat /\ k <= Len(d)
    BY <1>5, <1>6
  <2> QED BY <2>1, PrefixFacts
<1>8. Manifest'.data = e /\ Manifest'.synced = k /\ PossibleLengths' = {k} /\ k \in PossibleLengths
  <2>1. Manifest'.data = e /\ Manifest'.synced = k
    BY <1>6, <1>7
  <2>2. PossibleLengths' = k .. k /\ PossibleLengths = s .. Len(d)
    BY <1>5, <1>7, <2>1 DEF PossibleLengths
  <2> QED BY <1>7, <2>1, <2>2
<1>9. SameRecords(e, k, d, k)
  <2>1. Whole(d, k) # {}
    BY <1>2, <1>5, <1>8, ManifestFacts
  <2>2. d \in Seq(EditOrPiece) /\ e \in Seq(EditOrPiece) /\ k \in Nat /\ k <= Len(d) /\ k <= Len(e)
        /\ \A i \in 1 .. k : d[i] = e[i]
    BY <1>5, <1>7
  <2> QED BY ONLY <2>1, <2>2, SamePrefix DEF SameRecords
<1>10. /\ Described(d, k, current, tables, logs, promised) /\ LastEdit(d, k) \in EditRecord
  BY <1>2, <1>5, <1>8, ManifestFacts DEF DiskInv
<1>11. ASSUME NEW n \in DOMAIN logs
       PROVE  SurelyRead(logs[n]) \subseteq SurelyRead(logs'[n])
              /\ ToSet(logs'[n].data) \subseteq ToSet(logs[n].data)
  <2>1. logs[n] \in [data : Seq(Entry), synced : Nat] /\ logs[n].synced <= Len(logs[n].data)
    BY <1>2 DEF HasFiles
  <2>2. /\ SyncedPart(logs[n]) \subseteq SyncedPart(logs'[n])
        /\ ToSet(logs'[n].data) \subseteq ToSet(logs[n].data)
    BY <1>3, <2>1, RemainsFacts
  <2> QED BY <2>2, SurelyReadFacts DEF Sound
<1>12. \A n \in ApplyEdits(d, k) : n \in DOMAIN tables' /\ tables'[n] = tables[n]
  BY <1>10 DEF Described, Crash
<1>13. Described(d, k, current, tables', logs', promised')
  <2>1. PICK first : first = LastEdit(d, k).log
    OBVIOUS
  <2>2. SyncedData(logs, first) \subseteq SyncedData(logs', first)
    <3>1. \A n \in From(logs, first) :
            n \in From(logs', first) /\ SurelyRead(logs[n]) \subseteq SurelyRead(logs'[n])
      BY <1>3, <1>11 DEF From
    <3> QED BY <3>1, SyncedGrows
  <2>3. LogData(logs', first) \subseteq LogData(logs, first)
    BY <1>3, <1>11 DEF LogData, From
  <2>4. NumbersAreUnique(DataOf(tables, ApplyEdits(d, k)) \cup LogData(logs', first))
    BY <1>10, <2>1, <2>3, FewerNumbers DEF Described
  <2> QED BY <1>1, <1>10, <1>12, <2>1, <2>2, <2>4, DescribedStays
<1>14. DiskInv'
  <2>1. Described(e, k, current, tables', logs', promised')
    BY <1>9, <1>13 DEF Described, SameRecords
  <2> QED BY <1>1, <1>2, <1>3, <1>8, <2>1 DEF DiskInv
<1>15. ClosedInv'
  BY <1>1, <1>7, <1>8 DEF ClosedInv
<1> QED BY <1>1, <1>14, <1>15 DEF FilesInv, OpenInv, ReplayInv, SnapshotInv, Snapshotting

LEMMA ClosedFacts ==
  ASSUME TypeInv, FilesInv, phase # "up", NEW size, size = Len(Manifest.data)
  PROVE  /\ size \in Nat /\ PossibleLengths = {size} /\ size \in PossibleLengths
         /\ Described(Manifest.data, size, current, tables, logs, promised)
         /\ LastEdit(Manifest.data, size) \in EditRecord
         /\ ApplyEdits(Manifest.data, size) \in SUBSET Nat
<1>1. DiskInv /\ ClosedInv
  BY DEF FilesInv
<1>2. size \in Nat /\ size \in PossibleLengths
  BY <1>1, ManifestFacts
<1>3. PossibleLengths = size .. size
  BY <1>1 DEF ClosedInv, PossibleLengths
<1> QED BY <1>1, <1>2, <1>3, ManifestFacts DEF DiskInv, VersionAt

\* A step of DB::Open that leaves the directory's synced part as it is.
LEMMA ClosedStays ==
  ASSUME FilesInv, phase # "up", Manifest' = Manifest, current' = current,
         current \in DOMAIN manifests', PossibleLengths' = PossibleLengths,
         \A k \in PossibleLengths : Described(Manifest.data, k, current, tables', logs', promised'),
         UNCHANGED <<mem, imm, pinned, flush, merge, pending_outputs, bg_error>>
  PROVE  DiskInv' /\ ClosedInv'
<1>1. DiskInv'
  BY DEF DiskInv
<1>2. ClosedInv'
  BY DEF FilesInv, ClosedInv
<1> QED BY <1>1, <1>2

LEMMA RecoverStep ==
  ASSUME NullIsNoValue, TypeInv, TypeInv', FilesInv, Recover
  PROVE  FilesInv'
<1>1. /\ phase = "down"
      /\ UNCHANGED <<logs, tables, manifests, current, mem, imm, pinned, flush, merge,
                     pending_outputs, bg_error, promised>>
  BY DEF Recover, directory, history
<1>2. PICK size : size = Len(Manifest.data)
  OBVIOUS
<1>3. PICK last, v : last = LastEdit(Manifest.data, size) /\ v = ApplyEdits(Manifest.data, size)
  OBVIOUS
<1>4. /\ size \in Nat /\ PossibleLengths = {size}
      /\ Described(Manifest.data, size, current, tables, logs, promised)
      /\ last \in EditRecord /\ v \in SUBSET Nat
  BY <1>1, <1>2, <1>3, ClosedFacts
<1>5. Manifest' = Manifest /\ PossibleLengths' = PossibleLengths /\ current \in DOMAIN manifests'
  BY <1>1, SameManifest DEF FilesInv, DiskInv
<1>6. DiskInv' /\ ClosedInv'
  BY <1>1, <1>4, <1>5, ClosedStays
<1>7. CASE phase' = "corrupt"
  BY <1>6, <1>7 DEF FilesInv, OpenInv, ReplayInv, SnapshotInv, Snapshotting
<1>8. CASE /\ phase' = "replay" /\ version' = v
           /\ edit' = [last EXCEPT !.added = {}, !.deleted = {}]
           /\ log_number' = last.log /\ manifest_file_number' = last.next
           /\ next_file_number' = last.next + 1 /\ last_sequence' = last.last
           /\ replay' = {n \in DOMAIN logs : n >= last.log}
  <2>1. edit' \in EditRecord /\ edit'.added = {}
    BY <1>4, <1>8 DEF EditRecord
  <2>2. edit' # NULL
    BY <2>1 DEF NullIsNoValue
  <2>3. \A e \in DataOf(tables, v \cup {}) : e.seq <= last.last
    BY <1>3, <1>4 DEF Described, DataOf
  <2>4. manifest_file_number' < next_file_number'
    BY <1>4, <1>8 DEF EditRecord
  <2>5. replay' = From(logs, last.log)
    BY <1>8 DEF From
  <2>6. ReplayInv'
    <3>1. Len(Manifest'.data) = size /\ Manifest'.data = Manifest.data
      BY <1>2, <1>5
    <3>2. version' = ApplyEdits(Manifest'.data, size) /\ last = LastEdit(Manifest'.data, size)
      BY <1>3, <1>8, <3>1
    <3>3. DataOf(tables', edit'.added) = {}
      BY <2>1 DEF DataOf
    <3>4. \A e \in DataOf(tables', version' \cup edit'.added) : e.seq <= last_sequence'
      BY <1>1, <1>8, <2>1, <2>3
    <3>5. replay' = From(logs', log_number') /\ log_number' = last.log
          /\ manifest_file_number' = last.next
      BY <1>1, <1>8, <2>5
    <3> QED BY ONLY <2>1, <2>2, <2>4, <3>1, <3>2, <3>3, <3>4, <3>5 DEF ReplayInv, VersionAt
  <2> QED BY <1>6, <1>8, <2>6 DEF FilesInv, OpenInv, SnapshotInv, Snapshotting
<1> QED BY <1>2, <1>3, <1>7, <1>8 DEF Recover

LEMMA RecoverLogStep ==
  ASSUME NullIsNoValue, TypeInv, TypeInv', FilesInv, RecoverLogFile
  PROVE  FilesInv'
<1>1. /\ phase = "replay" /\ phase' = "replay" /\ replay # {}
      /\ UNCHANGED <<logs, manifests, current, mem, imm, log_number, manifest_file_number,
                     version, pinned, flush, merge, pending_outputs, bg_error, promised>>
  BY DEF RecoverLogFile, history
<1>2. PICK size : size = Len(Manifest.data)
  OBVIOUS
<1>3. PICK last, v : last = LastEdit(Manifest.data, size) /\ v = ApplyEdits(Manifest.data, size)
  OBVIOUS
<1>4. /\ size \in Nat /\ PossibleLengths = {size}
      /\ Described(Manifest.data, size, current, tables, logs, promised)
      /\ last \in EditRecord /\ v \in SUBSET Nat
  BY <1>1, <1>2, <1>3, ClosedFacts
<1>5. Manifest' = Manifest /\ PossibleLengths' = PossibleLengths /\ current \in DOMAIN manifests'
  BY <1>1, SameManifest DEF FilesInv, DiskInv
<1>6. /\ version = v /\ log_number = last.log /\ manifest_file_number = last.next
      /\ manifest_file_number < next_file_number
      /\ replay \subseteq From(logs, log_number)
      /\ edit # NULL
      /\ \A n \in edit.added : Complete(n) /\ n < next_file_number
      /\ DataOf(tables, edit.added) \subseteq LogData(logs, log_number)
      /\ \A n \in From(logs, log_number) \ replay :
           /\ Sound(ToSet(logs[n].data)) \subseteq DataOf(tables, edit.added)
           /\ n < next_file_number
      /\ \A e \in DataOf(tables, version \cup edit.added) : e.seq <= last_sequence
  BY <1>1, <1>2, <1>3 DEF FilesInv, ReplayInv, VersionAt
<1>7. PICK n, d : n = Min(replay) /\ d = logs[n].data
  OBVIOUS
<1>8. n \in replay /\ n \in DOMAIN logs /\ n \in Nat /\ n \in From(logs, log_number)
  <2>1. replay \subseteq Nat
    BY DEF TypeInv, MemoryTypes
  <2>2. n \in replay
    BY <1>1, <1>7, <2>1, MinOfNumbers
  <2> QED BY <1>6, <2>1, <2>2 DEF From
<1>9. d \in Seq(Entry) /\ ToSet(d) \in SUBSET Entry
  BY <1>7, <1>8, LogFacts
<1>10. PICK number \in Nat : number = next_file_number
  BY DEF TypeInv, MemoryTypes
<1>11. PICK read \in Readings(d), next \in Nat :
         /\ next = IF read = {} THEN number ELSE number + 1
         /\ replay' = replay \ {n}
         /\ read = {} => edit' = edit /\ tables' = tables
         /\ read # {} => /\ tables' = WriteTable(number, read, TRUE)
                         /\ edit' = [edit EXCEPT !.added = @ \cup {number}]
         /\ next_file_number' = Max({next, n + 1})
         /\ last_sequence' = Max({last_sequence} \cup {e.seq : e \in read})
  <2>1. RecoverLogFile
    OBVIOUS
  <2>2. PICK read \in Readings(d) :
          /\ replay' = replay \ {n}
          /\ IF read = {} THEN UNCHANGED <<edit, tables>>
             ELSE /\ tables' = WriteTable(number, read, TRUE)
                  /\ edit' = [edit EXCEPT !.added = @ \cup {number}]
          /\ next_file_number' = Max({IF read = {} THEN number ELSE number + 1, n + 1})
          /\ last_sequence' = Max({last_sequence} \cup {e.seq : e \in read})
    BY ONLY <1>7, <1>10, <2>1, Zenon DEF RecoverLogFile
  <2>3. (IF read = {} THEN number ELSE number + 1) \in Nat
    OBVIOUS
  <2>4. read = {} => edit' = edit /\ tables' = tables
    BY <2>2
  <2> QED BY ONLY <2>2, <2>3, <2>4, Zenon
<1>12. read \subseteq ToSet(d) /\ read \in SUBSET Entry /\ Sound(ToSet(d)) \subseteq read
  BY <1>9, <1>11 DEF Readings, Sound
<1>13. /\ next <= next_file_number' /\ n < next_file_number' /\ number <= next_file_number'
       /\ next_file_number' \in Nat
  <2>1. n + 1 \in Nat
    BY <1>8
  <2>2. /\ Max({next, n + 1}) \in Nat /\ next <= Max({next, n + 1}) /\ n + 1 <= Max({next, n + 1})
    BY <1>11, <2>1, LargerOf
  <2>3. PICK m \in Nat : m = Max({next, n + 1})
    BY <2>2
  <2>4. number <= next
    BY <1>11
  <2>5. next <= m /\ n + 1 <= m
    BY <2>2, <2>3
  <2>6. next <= m /\ n < m /\ number <= m
    BY <1>8, <2>4, <2>5
  <2> QED BY <1>11, <2>3, <2>6
<1>14. /\ last_sequence <= last_sequence' /\ \A e \in read : e.seq <= last_sequence'
       /\ last_sequence \in Nat /\ last_sequence' \in Nat
  <2>1. PICK b \in Nat : b = last_sequence
    BY DEF TypeInv, MemoryTypes
  <2>2. PICK seqs : seqs = {b} \cup {e.seq : e \in read}
    OBVIOUS
  <2>3. Max(seqs) \in Nat /\ \A s \in seqs : s <= Max(seqs)
    BY <1>9, <1>12, <2>1, <2>2, BiggestSeq
  <2>4. last_sequence' = Max(seqs)
    BY <1>11, <2>1, <2>2
  <2> QED BY <2>1, <2>2, <2>3, <2>4
<1>15. edit \in EditRecord
  BY <1>6 DEF TypeInv, MemoryTypes
<1>16. /\ \A m \in v \cup edit.added : /\ m \in DOMAIN tables /\ m # number
                                       /\ m \in DOMAIN tables' /\ tables'[m] = tables[m]
       /\ read # {} => /\ edit'.added = edit.added \cup {number} /\ number \in DOMAIN tables'
                      /\ tables'[number] = [data |-> read, synced |-> TRUE]
  <2>1. ASSUME NEW m \in v \cup edit.added PROVE m \in DOMAIN tables /\ m # number
    <3>1. CASE m \in edit.added
      <4>1. m \in DOMAIN tables /\ m < next_file_number /\ m \in Nat
        BY <1>6, <3>1, TableFacts DEF Complete
      <4> QED BY <1>10, <4>1
    <3>2. CASE m \in v
      <4>1. m \in DOMAIN tables /\ m < last.next /\ m \in Nat /\ last.next \in Nat
        BY <1>3, <1>4, <3>2 DEF Described, EditRecord
      <4> QED BY <1>6, <1>10, <4>1
    <3> QED BY <3>1, <3>2
  <2>2. CASE read = {}
    BY <1>11, <2>1, <2>2
  <2>3. CASE read # {}
    <3>1. /\ DOMAIN tables' = DOMAIN tables \cup {number}
          /\ tables'[number] = [data |-> read, synced |-> TRUE]
          /\ \A m \in DOMAIN tables \ {number} : tables'[m] = tables[m]
      <4>1. tables' = WriteTable(number, read, TRUE) /\ TRUE \in BOOLEAN
        BY <1>11, <2>3
      <4> QED BY <1>10, <1>12, <4>1, WriteTableFacts
    <3>2. edit'.added = edit.added \cup {number}
      BY <1>11, <1>15, <2>3 DEF EditRecord
    <3> QED BY <2>1, <3>1, <3>2
  <2> QED BY <2>2, <2>3
<1>17. DataOf(tables', edit'.added) = DataOf(tables, edit.added) \cup read
  <2>1. DataOf(tables', edit.added) = DataOf(tables, edit.added)
    BY <1>16, DataStays
  <2>2. CASE read = {}
    <3> QED BY <1>11, <2>1, <2>2
  <2>3. CASE read # {}
    BY <1>16, <2>1, <2>3 DEF DataOf
  <2> QED BY <2>2, <2>3
<1>18. edit' # NULL /\ \A m \in edit'.added : m \in DOMAIN tables' /\ tables'[m].synced
                                              /\ m < next_file_number'
  <2>1. ASSUME NEW m \in edit.added PROVE m \in DOMAIN tables' /\ tables'[m].synced
                                          /\ m < next_file_number'
    <3>1. m \in Nat /\ m < number /\ tables[m].synced
      BY <1>6, <1>10, TableFacts DEF Complete
    <3> QED BY <1>10, <1>13, <1>16, <3>1
  <2>2. CASE read = {}
    BY <1>6, <1>11, <2>1, <2>2
  <2>3. CASE read # {}
    <3>1. edit' \in EditRecord
      <4>1. edit.added \cup {number} \in SUBSET Nat
        BY <1>10, <1>15 DEF EditRecord
      <4> QED BY <1>11, <1>15, <2>3, <4>1 DEF EditRecord
    <3>2. number < next_file_number' /\ tables'[number].synced
      BY <1>10, <1>11, <1>13, <1>16, <2>3
    <3> QED BY <1>16, <2>1, <2>3, <3>1, <3>2 DEF NullIsNoValue
  <2> QED BY <2>2, <2>3
<1>19. DiskInv' /\ ClosedInv'
  <2>1. Described(Manifest.data, size, current, tables', logs', promised')
    <3>1. \A m \in ApplyEdits(Manifest.data, size) : m \in DOMAIN tables' /\ tables'[m] = tables[m]
      BY <1>3, <1>16
    <3>2. NumbersAreUnique(DataOf(tables, ApplyEdits(Manifest.data, size))
                             \cup LogData(logs', LastEdit(Manifest.data, size).log))
      BY <1>1, <1>4 DEF Described
    <3> QED BY <1>1, <1>4, <3>1, <3>2, DescribedStays
  <2> QED BY <1>1, <1>4, <1>5, <2>1, ClosedStays
<1>20. read \subseteq LogData(logs, log_number)
  BY <1>7, <1>8, <1>12 DEF LogData
<1>21. ReplayInv'
  <2>1. Len(Manifest'.data) = size /\ Manifest'.data = Manifest.data
    BY <1>2, <1>5
  <2>2. /\ version' = ApplyEdits(Manifest'.data, size)
        /\ log_number' = LastEdit(Manifest'.data, size).log
        /\ manifest_file_number' = LastEdit(Manifest'.data, size).next
    BY <1>1, <1>3, <1>6, <2>1
  <2>3. manifest_file_number' < next_file_number'
    BY <1>1, <1>6, <1>10, <1>13 DEF TypeInv, MemoryTypes
  <2>4. replay' \subseteq From(logs', log_number')
    BY <1>1, <1>6, <1>11
  <2>5. DataOf(tables', edit'.added) \subseteq LogData(logs', log_number')
    BY <1>1, <1>6, <1>17, <1>20
  <2>6. \A m \in From(logs', log_number') \ replay' :
          /\ Sound(ToSet(logs'[m].data)) \subseteq DataOf(tables', edit'.added)
          /\ m < next_file_number'
    <3>1. TAKE m \in From(logs', log_number') \ replay'
    <3>2. CASE m = n
      BY <1>1, <1>7, <1>12, <1>13, <1>17, <3>2
    <3>3. CASE m # n
      <4>1. m \in From(logs, log_number) \ replay
        BY <1>1, <1>11, <3>3
      <4>2. Sound(ToSet(logs[m].data)) \subseteq DataOf(tables, edit.added) /\ m < next_file_number
        BY <1>6, <4>1
      <4>3. m \in Nat
        BY <4>1, LogFacts DEF From
      <4> QED BY <1>1, <1>10, <1>13, <1>17, <4>2, <4>3
    <3> QED BY <3>2, <3>3
  <2>7. \A e \in DataOf(tables', version' \cup edit'.added) : e.seq <= last_sequence'
    <3>1. TAKE e \in DataOf(tables', version' \cup edit'.added)
    <3>2. e \in DataOf(tables', version) \/ e \in DataOf(tables', edit'.added)
      BY <1>1 DEF DataOf
    <3>3. DataOf(tables', version) = DataOf(tables, version)
      BY <1>6, <1>16, DataStays
    <3>4. CASE e \in read
      BY <1>14, <3>4
    <3>5. CASE e \in DataOf(tables, version \cup edit.added)
      <4>1. e.seq <= last_sequence
        BY <1>6, <3>5
      <4>2. e.seq \in Nat
        <5>1. PICK m \in version \cup edit.added : e \in tables[m].data
          BY <3>5 DEF DataOf
        <5>2. m \in DOMAIN tables
          BY <1>6, <1>16
        <5> QED BY <5>1, <5>2, TableFacts DEF TableFile, Entry
      <4> QED BY <1>14, <4>1, <4>2
    <3> QED BY <1>17, <3>2, <3>3, <3>4, <3>5 DEF DataOf
  <2> QED BY ONLY <1>18, <2>1, <2>2, <2>3, <2>4, <2>5, <2>6, <2>7 DEF ReplayInv, VersionAt, Complete
<1> QED BY <1>1, <1>19, <1>21 DEF FilesInv, OpenInv, SnapshotInv, Snapshotting

LEMMA OpenLogStep ==
  ASSUME NullIsNoValue, TypeInv, TypeInv', FilesInv, OpenLog
  PROVE  FilesInv'
<1>1. /\ phase = "replay" /\ phase' = "snapshot" /\ replay = {}
      /\ logs' = Create(logs, next_file_number, <<>>)
      /\ logfile_number' = next_file_number /\ next_file_number' = next_file_number + 1
      /\ UNCHANGED <<tables, manifests, current, mem, imm, log_number, manifest_file_number,
                     last_sequence, version, pinned, flush, merge, edit, pending_outputs,
                     bg_error, promised>>
  BY DEF OpenLog, background, history
<1>2. PICK size : size = Len(Manifest.data)
  OBVIOUS
<1>3. PICK last, v : last = LastEdit(Manifest.data, size) /\ v = ApplyEdits(Manifest.data, size)
  OBVIOUS
<1>4. /\ size \in Nat /\ PossibleLengths = {size}
      /\ Described(Manifest.data, size, current, tables, logs, promised)
      /\ last \in EditRecord /\ v \in SUBSET Nat
  BY <1>1, <1>2, <1>3, ClosedFacts
<1>5. Manifest' = Manifest /\ PossibleLengths' = PossibleLengths /\ current \in DOMAIN manifests'
  BY <1>1, SameManifest DEF FilesInv, DiskInv
<1>6. /\ version = v /\ log_number = last.log /\ manifest_file_number = last.next
      /\ manifest_file_number < next_file_number
      /\ edit # NULL
      /\ \A n \in edit.added : Complete(n) /\ n < next_file_number
      /\ DataOf(tables, edit.added) \subseteq LogData(logs, log_number)
      /\ \A n \in From(logs, log_number) :
           Sound(ToSet(logs[n].data)) \subseteq DataOf(tables, edit.added) /\ n < next_file_number
      /\ \A e \in DataOf(tables, version \cup edit.added) : e.seq <= last_sequence
  BY <1>1, <1>2, <1>3 DEF FilesInv, ReplayInv, VersionAt
<1>7. /\ last.log \in Nat /\ last.next \in Nat /\ current \in Nat /\ next_file_number \in Nat
      /\ last.log < last.next /\ current < last.next /\ last.next < next_file_number
  BY <1>3, <1>4, <1>6 DEF Described, EditRecord, TypeInv, DiskTypes, MemoryTypes
<1>8. \A n \in DOMAIN logs : n \in Nat /\ n < next_file_number
  <2>1. TAKE n \in DOMAIN logs
  <2>2. n \in Nat
    BY LogFacts
  <2>3. CASE n >= last.log
    BY <1>6, <2>2, <2>3 DEF From
  <2>4. CASE ~(n >= last.log)
    BY <1>7, <2>2, <2>4
  <2> QED BY <2>2, <2>3, <2>4
<1>9. /\ DOMAIN logs' = DOMAIN logs \cup {next_file_number}
      /\ logs'[next_file_number] = [data |-> <<>>, synced |-> 0]
      /\ \A m \in DOMAIN logs \ {next_file_number} : logs'[m] = logs[m]
  <2>1. logs' = [m \in DOMAIN logs \cup {next_file_number} |->
                   IF m = next_file_number THEN [data |-> <<>>, synced |-> 0] ELSE logs[m]]
    BY <1>1 DEF Create, Empty
  <2> QED BY <2>1
<1>10. next_file_number \notin DOMAIN logs
  BY <1>7, <1>8
<1>11. ToSet(<<>>) = {}
  BY DEF ToSet
<1>12. DiskInv' /\ ClosedInv'
  <2>1. SyncedData(logs, last.log) \subseteq SyncedData(logs', last.log)
    <3>1. \A n \in From(logs, last.log) :
            n \in From(logs', last.log) /\ SurelyRead(logs[n]) \subseteq SurelyRead(logs'[n])
      BY <1>9, <1>10 DEF From
    <3> QED BY <3>1, SyncedGrows
  <2>2. LogData(logs', last.log) \subseteq LogData(logs, last.log)
    BY <1>9, <1>11 DEF LogData, From
  <2>3. NumbersAreUnique(DataOf(tables, v) \cup LogData(logs', last.log))
    BY <1>3, <1>4, <2>2, FewerNumbers DEF Described
  <2>4. \A n \in v : n \in DOMAIN tables' /\ tables'[n] = tables[n]
    BY <1>1, <1>3, <1>4 DEF Described
  <2>5. Described(Manifest.data, size, current, tables', logs', promised')
    BY <1>1, <1>3, <1>4, <2>1, <2>3, <2>4, DescribedStays
  <2> QED BY <1>1, <1>4, <1>5, <2>5, ClosedStays
<1>13. PICK contents : contents = DataOf(tables, v \cup edit.added)
  OBVIOUS
<1>14. promised \subseteq Ids(contents) /\ NumbersAreUnique(contents)
       /\ \A e \in contents : e.seq <= last_sequence
  <2>1. DataOf(tables, v) \subseteq contents /\ DataOf(tables, edit.added) \subseteq contents
    BY <1>13 DEF DataOf
  <2>3. SyncedData(logs, last.log) \subseteq DataOf(tables, edit.added)
    <3>1. \A n \in From(logs, last.log) :
            SurelyRead(logs[n]) \subseteq Sound(ToSet(logs[n].data))
      BY LogFacts DEF From
    <3>2. \A n \in From(logs, last.log) :
            SurelyRead(logs[n]) \subseteq DataOf(tables, edit.added)
      BY <1>6, <3>1
    <3> QED BY <3>2 DEF SyncedData
  <2>4. Ids(DataOf(tables, v)) \subseteq Ids(contents) /\ Ids(SyncedData(logs, last.log)) \subseteq Ids(contents)
    BY <2>1, <2>3, IdsGrow
  <2>5. promised \subseteq Ids(contents)
    BY <1>3, <1>4, <2>4 DEF Described
  <2>6. contents \subseteq DataOf(tables, v) \cup LogData(logs, last.log)
    BY <1>6, <1>13 DEF DataOf
  <2>7. NumbersAreUnique(contents)
    BY <1>3, <1>4, <2>6, FewerNumbers DEF Described
  <2> QED BY <1>6, <1>13, <2>5, <2>7
<1>15. ASSUME NEW n \in v \cup edit.added PROVE Complete(n) /\ n < next_file_number'
  <2>1. CASE n \in edit.added
    <3>1. Complete(n) /\ n < next_file_number
      BY <1>6, <2>1
    <3>2. n \in Nat
      BY <3>1, TableFacts DEF Complete
    <3> QED BY <1>1, <1>7, <3>1, <3>2
  <2>2. CASE n \in v
    <3>1. n \in DOMAIN tables /\ tables[n].synced /\ n < last.next /\ n \in Nat
      BY <1>3, <1>4, <2>2 DEF Described
    <3> QED BY <1>1, <1>7, <3>1 DEF Complete
  <2> QED BY <2>1, <2>2
<1>16. SnapshotReady'
  <2>1. logfile_number' \in DOMAIN logs' /\ logs'[logfile_number'].data = <<>>
    BY <1>1, <1>9
  <2>2. \A n \in DOMAIN logs' : n <= logfile_number'
    BY <1>1, <1>7, <1>8, <1>9
  <2>3. logfile_number' < next_file_number' /\ manifest_file_number' < next_file_number'
    BY <1>1, <1>6, <1>7
  <2>4. contents = DataOf(tables', version' \cup edit'.added)
    BY <1>1, <1>6, <1>13
  <2>5. promised' \subseteq Ids(contents) /\ \A e \in contents : e.seq <= last_sequence'
    BY <1>1, <1>14
  <2>6. \A n \in version' \cup edit'.added : Complete(n)' /\ n < next_file_number'
    BY <1>1, <1>6, <1>15 DEF Complete
  <2> QED BY <1>1, <1>6, <1>14, <2>1, <2>2, <2>3, <2>4, <2>5, <2>6 DEF SnapshotReady
<1>17. SnapshotInv'
  <2>1. manifest_file_number' # current'
    BY <1>1, <1>6, <1>7
  <2> QED BY <1>1, <1>16, <2>1 DEF SnapshotInv
<1> QED BY <1>1, <1>12, <1>17 DEF FilesInv, OpenInv, ReplayInv

\* While the snapshot is written, what Recover found stays as it was found.
LEMMA ReadyStays ==
  ASSUME SnapshotReady, edit' # NULL, edit'.added = edit.added,
         UNCHANGED <<logs, tables, version, logfile_number, manifest_file_number,
                     next_file_number, last_sequence, promised>>
  PROVE  SnapshotReady'
BY DEF SnapshotReady, Complete

\* A file other than CURRENT's manifest changes.
LEMMA OtherManifest ==
  ASSUME TypeInv, FilesInv, phase # "up", current \in DOMAIN manifests', manifests'[current] = manifests[current],
         UNCHANGED <<current, logs, tables, promised, mem, imm, pinned, flush, merge,
                     pending_outputs, bg_error>>
  PROVE  DiskInv' /\ ClosedInv'
<1>1. Manifest' = Manifest /\ PossibleLengths' = PossibleLengths
  BY DEF Manifest, PossibleLengths
<1>2. \A k \in PossibleLengths : Described(Manifest.data, k, current, tables', logs', promised')
  BY DEF FilesInv, DiskInv
<1> QED BY <1>1, <1>2, ClosedStays

LEMMA WriteSnapshotStep ==
  ASSUME NullIsNoValue, TypeInv, TypeInv', FilesInv, WriteSnapshot
  PROVE  FilesInv'
<1>1. /\ phase = "snapshot" /\ phase' = "sync"
      /\ edit' = Edit(logfile_number, edit.added, {})
      /\ manifests' = Create(manifests, manifest_file_number, <<[edit' EXCEPT !.added = version \cup @]>>)
      /\ UNCHANGED <<logs, tables, current, mem, imm, logfile_number, log_number,
                     manifest_file_number, next_file_number, last_sequence, version, pinned,
                     flush, merge, pending_outputs, bg_error, promised>>
  BY DEF WriteSnapshot, numbers, history
<1>2. SnapshotReady /\ manifest_file_number # current /\ current \in DOMAIN manifests
  BY <1>1 DEF FilesInv, SnapshotInv, Snapshotting, DiskInv
<1>3. edit' = [log |-> logfile_number, next |-> next_file_number, last |-> last_sequence,
               added |-> edit.added, deleted |-> {}]
  BY <1>1 DEF Edit
<1>4. edit' # NULL /\ edit'.added = edit.added /\ edit'.log = logfile_number
  <2>1. edit \in EditRecord
    BY <1>2 DEF SnapshotReady, TypeInv, MemoryTypes
  <2>2. edit' \in EditRecord
    BY <1>3, <2>1 DEF EditRecord, TypeInv, MemoryTypes
  <2> QED BY <1>3, <2>2 DEF NullIsNoValue
<1>5. PICK x : x = [log |-> logfile_number, next |-> next_file_number, last |-> last_sequence,
                    added |-> version \cup edit.added, deleted |-> {}]
  OBVIOUS
<1>6. [edit' EXCEPT !.added = version \cup @] = x
  BY <1>3, <1>5
<1>7. manifests' = [m \in DOMAIN manifests \cup {manifest_file_number} |->
                      IF m = manifest_file_number THEN [data |-> <<x>>, synced |-> 0]
                      ELSE manifests[m]]
  <2>1. manifests' = Create(manifests, manifest_file_number, <<x>>)
    BY <1>1, <1>6
  <2> QED BY <2>1 DEF Create, Empty
<1>8. DiskInv' /\ ClosedInv'
  <2>1. current \in DOMAIN manifests' /\ manifests'[current] = manifests[current]
    BY <1>2, <1>7
  <2> QED BY <1>1, <2>1, OtherManifest
<1>9. SnapshotReady'
  BY <1>1, <1>2, <1>4, ReadyStays
<1>10. SnapshotWritten'
  <2>1. /\ manifest_file_number \in DOMAIN manifests'
        /\ manifests'[manifest_file_number].data = <<x>>
    BY <1>7
  <2> QED BY <1>1, <1>4, <1>5, <2>1 DEF SnapshotWritten
<1>11. SnapshotInv'
  BY <1>1, <1>2, <1>9, <1>10 DEF SnapshotInv
<1> QED BY <1>1, <1>8, <1>11 DEF FilesInv, OpenInv, ReplayInv

LEMMA SyncNewManifestStep ==
  ASSUME NullIsNoValue, TypeInv, TypeInv', FilesInv, SyncNewManifest
  PROVE  FilesInv'
<1>1. /\ phase = "sync" /\ phase' = "rename"
      /\ manifests' = SyncFile(manifests, manifest_file_number)
      /\ UNCHANGED <<logs, tables, current, mem, imm, logfile_number, log_number,
                     manifest_file_number, next_file_number, last_sequence, version, pinned,
                     flush, merge, edit, pending_outputs, bg_error, promised>>
  BY DEF SyncNewManifest, numbers, background, history
<1>2. /\ SnapshotReady /\ SnapshotWritten
      /\ manifest_file_number # current /\ current \in DOMAIN manifests
  BY <1>1 DEF FilesInv, SnapshotInv, Snapshotting, DiskInv
<1>3. /\ HasFiles(manifests, EditOrPiece) /\ manifest_file_number \in DOMAIN manifests
  BY <1>2 DEF TypeInv, DiskTypes, SnapshotWritten
<1>4. /\ DOMAIN manifests' = DOMAIN manifests
      /\ manifests'[manifest_file_number] =
           [data |-> manifests[manifest_file_number].data,
            synced |-> Len(manifests[manifest_file_number].data)]
      /\ \A m \in DOMAIN manifests \ {manifest_file_number} : manifests'[m] = manifests[m]
  BY <1>1, <1>3, SyncFacts
<1>5. DiskInv' /\ ClosedInv'
  <2>1. current \in DOMAIN manifests' /\ manifests'[current] = manifests[current]
    BY <1>2, <1>4
  <2> QED BY <1>1, <2>1, OtherManifest
<1>6. SnapshotReady'
  <2>1. edit' = edit /\ edit # NULL
    BY <1>1, <1>2 DEF SnapshotReady
  <2> QED BY <1>1, <1>2, <2>1, ReadyStays
<1>7. SnapshotWritten'
  <2>1. PICK x : /\ manifests[manifest_file_number].data = <<x>>
                 /\ x = [log |-> logfile_number, next |-> next_file_number,
                         last |-> last_sequence, added |-> version \cup edit.added,
                         deleted |-> {}]
    BY <1>2 DEF SnapshotWritten
  <2>2. Len(<<x>>) = 1
    OBVIOUS
  <2>3. /\ manifests'[manifest_file_number].data = <<x>>
        /\ manifests'[manifest_file_number].synced = 1
        /\ manifest_file_number \in DOMAIN manifests' /\ edit.log = logfile_number
    BY <1>2, <1>4, <2>1, <2>2 DEF SnapshotWritten
  <2> QED BY <1>1, <2>1, <2>3 DEF SnapshotWritten
<1>8. SnapshotInv'
  BY <1>1, <1>2, <1>6, <1>7 DEF SnapshotInv
<1> QED BY <1>1, <1>5, <1>8 DEF FilesInv, OpenInv, ReplayInv

\* The snapshot describes the database.
LEMMA SnapshotDescribes ==
  ASSUME NullIsNoValue, TypeInv, SnapshotReady, SnapshotWritten
  PROVE  LET d == manifests[manifest_file_number].data
             x == [log |-> logfile_number, next |-> next_file_number, last |-> last_sequence,
                   added |-> version \cup edit.added, deleted |-> {}]
         IN /\ d \in Seq(EditOrPiece) /\ Len(d) = 1
            /\ LastEdit(d, 1) = x /\ ApplyEdits(d, 1) = version \cup edit.added
            /\ Described(d, 1, manifest_file_number, tables, logs, promised)
<1>1. PICK x : x = [log |-> logfile_number, next |-> next_file_number, last |-> last_sequence,
                    added |-> version \cup edit.added, deleted |-> {}]
  OBVIOUS
<1>2. PICK d : d = <<x>> /\ d = manifests[manifest_file_number].data
  BY <1>1 DEF SnapshotWritten
<1>3. edit \in EditRecord
  BY DEF SnapshotReady, TypeInv, MemoryTypes
<1>4. x \in EditRecord
  <2>1. version \cup edit.added \in SUBSET Nat
    BY <1>3 DEF EditRecord, TypeInv, MemoryTypes
  <2> QED BY <1>1, <2>1 DEF EditRecord, TypeInv, MemoryTypes
<1>5. /\ d \in Seq(EditOrPiece) /\ Len(d) = 1
      /\ Whole(d, 1) # {} /\ LastEdit(d, 1) = x /\ ApplyEdits(d, 1) = x.added
  BY <1>2, <1>4, SingleRecord
<1>6. PICK v : v = version \cup edit.added
  OBVIOUS
<1>7. /\ x.added = v /\ x.log = logfile_number /\ x.next = next_file_number /\ x.last = last_sequence
  BY <1>1, <1>6
<1>8. /\ promised \subseteq Ids(DataOf(tables, v))
      /\ \A e \in DataOf(tables, v) : e.seq <= last_sequence
      /\ NumbersAreUnique(DataOf(tables, v))
      /\ \A n \in v : n \in DOMAIN tables /\ tables[n].synced /\ n < next_file_number
      /\ logfile_number < next_file_number /\ manifest_file_number < next_file_number
  BY <1>6 DEF SnapshotReady, Complete
<1>9. LogData(logs, logfile_number) = {}
  <2>1. ToSet(<<>>) = {}
    BY DEF ToSet
  <2>2. ASSUME NEW n \in From(logs, logfile_number) PROVE ToSet(logs[n].data) = {}
    <3>1. n \in DOMAIN logs /\ n >= logfile_number /\ n <= logfile_number
      BY <2>2 DEF From, SnapshotReady
    <3>2. n \in Nat /\ logfile_number \in Nat
      BY <3>1, LogFacts DEF TypeInv, MemoryTypes
    <3>3. n = logfile_number
      BY <3>1, <3>2
    <3> QED BY <2>1, <3>3 DEF SnapshotReady
  <2> QED BY <2>2 DEF LogData
<1>10. \A n \in v : \A e \in tables[n].data : e.seq <= last_sequence
  BY <1>8 DEF DataOf
<1>11. Described(d, 1, manifest_file_number, tables, logs, promised)
  <2>1. NumbersAreUnique(DataOf(tables, v) \cup LogData(logs, logfile_number))
    BY <1>8, <1>9
  <2>2. /\ LastEdit(d, 1).log = logfile_number /\ LastEdit(d, 1).next = next_file_number
        /\ LastEdit(d, 1).last = last_sequence /\ ApplyEdits(d, 1) = v
    BY <1>5, <1>7
  <2> QED BY <1>5, <1>8, <1>10, <2>1, <2>2 DEF Described
<1> QED BY <1>1, <1>2, <1>5, <1>6, <1>7, <1>11

LEMMA SetCurrentFileStep ==
  ASSUME NullIsNoValue, TypeInv, TypeInv', FilesInv, SetCurrentFile
  PROVE  FilesInv'
<1>1. /\ phase = "rename" /\ phase' = "install" /\ current' = manifest_file_number
      /\ UNCHANGED <<logs, tables, manifests, mem, imm, logfile_number, log_number,
                     manifest_file_number, next_file_number, last_sequence, version, pinned,
                     flush, merge, edit, pending_outputs, bg_error, promised>>
  BY DEF SetCurrentFile, numbers, background, history
<1>2. SnapshotReady /\ SnapshotWritten
  BY <1>1 DEF FilesInv, SnapshotInv, Snapshotting
<1>3. PICK d : d = manifests[manifest_file_number].data
  OBVIOUS
<1>4. Len(d) = 1 /\ Described(d, 1, manifest_file_number, tables, logs, promised)
  BY <1>2, <1>3, SnapshotDescribes
<1>5. Manifest'.data = d /\ Manifest'.synced = 1 /\ manifest_file_number \in DOMAIN manifests
  BY <1>1, <1>2, <1>3 DEF Manifest, SnapshotWritten
<1>6. PossibleLengths' = {1}
  <2>1. PossibleLengths' = 1 .. 1
    BY <1>4, <1>5 DEF PossibleLengths
  <2> QED BY <2>1
<1>7. DiskInv'
  BY <1>1, <1>4, <1>5, <1>6 DEF DiskInv
<1>8. ClosedInv'
  BY <1>1, <1>4, <1>5 DEF FilesInv, ClosedInv
<1>9. SnapshotReady' /\ SnapshotWritten'
  <2>1. edit' = edit /\ edit # NULL
    BY <1>1, <1>2 DEF SnapshotReady
  <2>2. SnapshotReady'
    BY <1>1, <1>2, <2>1, ReadyStays
  <2>3. SnapshotWritten'
    BY <1>1, <1>2 DEF SnapshotWritten
  <2> QED BY <2>2, <2>3
<1> QED BY <1>1, <1>7, <1>8, <1>9 DEF FilesInv, OpenInv, ReplayInv, SnapshotInv

LEMMA OpenInstallStep ==
  ASSUME NullIsNoValue, TypeInv, TypeInv', FilesInv, OpenInstall
  PROVE  FilesInv'
<1>1. /\ phase = "install" /\ phase' = "up" /\ edit' = NULL
      /\ version' = version \cup edit.added /\ log_number' = edit.log
      /\ DeleteObsoleteFiles(version', log_number', {})
      /\ UNCHANGED <<current, mem, imm, logfile_number, manifest_file_number, next_file_number,
                     last_sequence, pinned, flush, merge, pending_outputs, bg_error, promised>>
  BY DEF OpenInstall, history
<1>2. /\ SnapshotReady /\ SnapshotWritten /\ manifest_file_number = current
      /\ current \in DOMAIN manifests
      /\ mem = {} /\ imm = NULL /\ pinned = NULL /\ flush = NULL /\ merge = NULL /\ ~bg_error
  BY <1>1 DEF FilesInv, SnapshotInv, Snapshotting, DiskInv, ClosedInv
<1>3. PICK d, v : d = Manifest.data /\ v = version \cup edit.added
  OBVIOUS
<1>4. /\ Len(d) = 1 /\ ApplyEdits(d, 1) = v
      /\ LastEdit(d, 1).log = logfile_number /\ LastEdit(d, 1).next = next_file_number
      /\ LastEdit(d, 1).last = last_sequence
      /\ Described(d, 1, current, tables, logs, promised)
  BY <1>2, <1>3, SnapshotDescribes DEF Manifest
<1>5. version' = v /\ log_number' = logfile_number /\ Entries(pinned) = {} /\ Entries(imm) = {}
  BY <1>1, <1>2, <1>3 DEF SnapshotWritten, Entries
<1>6. /\ logfile_number \in DOMAIN logs /\ logs[logfile_number].data = <<>>
      /\ \A n \in DOMAIN logs : n \in Nat /\ n <= logfile_number
      /\ logfile_number \in Nat /\ next_file_number \in Nat /\ current \in Nat
      /\ logfile_number < next_file_number /\ current < next_file_number
      /\ \A n \in v : n \in DOMAIN tables /\ tables[n].synced /\ n < next_file_number
      /\ promised \subseteq Ids(DataOf(tables, v))
      /\ \A e \in DataOf(tables, v) : e.seq <= last_sequence
      /\ NumbersAreUnique(DataOf(tables, v))
  BY <1>2, <1>3, LogFacts DEF SnapshotReady, Complete, TypeInv, DiskTypes, MemoryTypes
<1>7. /\ logs' = Keep(logs, {n \in DOMAIN logs : n >= logfile_number})
      /\ manifests' = Keep(manifests, {n \in DOMAIN manifests : n >= current})
      /\ tables' = Keep(tables, v)
  <2>1. {} \cup version' \cup Entries(pinned) = v
    BY <1>5
  <2> QED BY <1>1, <1>2, <1>5, <2>1 DEF DeleteObsoleteFiles
<1>8. /\ DOMAIN logs' = {logfile_number} /\ logs'[logfile_number] = logs[logfile_number]
      /\ DOMAIN tables' = v /\ \A n \in v : tables'[n] = tables[n]
      /\ current \in DOMAIN manifests' /\ manifests'[current] = manifests[current]
  <2>1. {n \in DOMAIN logs : n >= logfile_number} = {logfile_number}
    BY <1>6
  <2>2. DOMAIN logs' = {logfile_number} /\ logs'[logfile_number] = logs[logfile_number]
    BY <1>6, <1>7, <2>1 DEF Keep
  <2>3. DOMAIN tables' = v /\ \A n \in v : tables'[n] = tables[n]
    BY <1>6, <1>7 DEF Keep
  <2>4. current \in DOMAIN manifests' /\ manifests'[current] = manifests[current]
    BY <1>2, <1>6, <1>7 DEF Keep
  <2> QED BY <2>2, <2>3, <2>4
<1>9. DataOf(tables', v) = DataOf(tables, v)
  BY <1>8, DataStays
<1>10. /\ Manifest' = Manifest /\ PossibleLengths' = PossibleLengths /\ PossibleLengths = {1}
  <2>1. Manifest' = Manifest
    BY <1>1, <1>8 DEF Manifest
  <2>2. Manifest.synced = 1
    BY <1>1, <1>2 DEF SnapshotWritten, Manifest
  <2>3. PossibleLengths = 1 .. 1
    BY <1>3, <1>4, <2>2 DEF PossibleLengths
  <2> QED BY <2>1, <2>3 DEF PossibleLengths
<1>11. DiskInv'
  <2>1. SyncedData(logs, logfile_number) \subseteq SyncedData(logs', logfile_number)
    <3>1. ASSUME NEW n \in From(logs, logfile_number) PROVE n = logfile_number
      BY <1>6 DEF From
    <3>2. logfile_number \in From(logs', logfile_number)
      BY <1>6, <1>8 DEF From
    <3>3. \A n \in From(logs, logfile_number) :
            n \in From(logs', logfile_number) /\ SurelyRead(logs[n]) \subseteq SurelyRead(logs'[n])
      BY <1>8, <3>1, <3>2
    <3> QED BY <3>3, SyncedGrows
  <2>2. LogData(logs', logfile_number) \subseteq LogData(logs, logfile_number)
    BY <1>6, <1>8 DEF LogData, From
  <2>3. NumbersAreUnique(DataOf(tables, v) \cup LogData(logs', logfile_number))
    BY <1>4, <2>2, FewerNumbers DEF Described
  <2>4. \A n \in v : n \in DOMAIN tables' /\ tables'[n] = tables[n]
    BY <1>8
  <2>5. Described(d, 1, current, tables', logs', promised')
    BY <1>1, <1>4, <2>1, <2>3, <2>4, DescribedStays
  <2> QED BY <1>1, <1>3, <1>8, <1>10, <2>5 DEF DiskInv
<1>12. Known' = DataOf(tables, v) /\ Present' = DataOf(tables, v)
  <2>1. Known' = DataOf(tables, v)
    BY <1>1, <1>2, <1>5, <1>9 DEF Known, Entries
  <2>2. ToSet(<<>>) = {}
    BY DEF ToSet
  <2>3. \A n \in From(logs', logfile_number) : ToSet(logs'[n].data) = {}
    BY <1>6, <1>8, <2>2 DEF From
  <2>4. LogData(logs', logfile_number) = {}
    BY <2>3 DEF LogData
  <2> QED BY <1>5, <2>1, <2>4 DEF Present
<1>13. NumbersInv'
  BY <1>1, <1>2, <1>5, <1>6, <1>8 DEF NumbersInv
<1>14. MemoryInv'
  BY <1>1, <1>5 DEF MemoryInv
<1>15. HeldInv'
  BY <1>1, <1>2, <1>5, <1>6, <1>8 DEF HeldInv, Complete, Entries
<1>16. ContentsInv'
  BY <1>1, <1>6, <1>12 DEF ContentsInv
<1>17. ManifestInv'
  <2>1. Manifest'.data = d /\ VersionAt(1)' = v
    BY <1>3, <1>4, <1>10 DEF VersionAt
  <2>2. last_sequence \in Nat
    BY DEF TypeInv, MemoryTypes
  <2>3. promised' \subseteq Ids(DataOf(tables', v))
    BY <1>1, <1>6, <1>9
  <2>4. \A k \in PossibleLengths' :
          LET last == LastEdit(Manifest'.data, k)
          IN /\ log_number' <= last.log /\ last.log <= logfile_number'
             /\ last.next <= next_file_number' /\ last.last <= last_sequence'
             /\ DataOf(tables', ApplyEdits(Manifest'.data, k)) \subseteq Known'
    BY <1>1, <1>4, <1>5, <1>6, <1>9, <1>10, <1>12, <2>1, <2>2
  <2>5. Len(Manifest'.data) = 1 /\ ApplyEdits(Manifest'.data, 1) = v
    BY <1>4, <2>1
  <2> QED BY <1>1, <1>5, <2>3, <2>4, <2>5 DEF ManifestInv, VersionAt
<1>18. WorkInv' /\ EditInv'
  BY <1>1, <1>2 DEF WorkInv, EditInv
<1> QED BY <1>1, <1>11, <1>13, <1>14, <1>15, <1>16, <1>17, <1>18
        DEF FilesInv, OpenInv, ClosedInv, ReplayInv, SnapshotInv, Snapshotting

LEMMA OpenFailsStep ==
  ASSUME NullIsNoValue, TypeInv, TypeInv', FilesInv, OpenFails
  PROVE  FilesInv'
<1>1. /\ phase \in {"sync", "rename"} /\ phase' = "down"
      /\ manifests' = Keep(manifests, DOMAIN manifests \ {manifest_file_number})
      /\ UNCHANGED <<logs, tables, current, mem, imm, pinned, flush, merge, pending_outputs,
                     bg_error, promised>>
  BY DEF OpenFails
<1>2. manifest_file_number # current /\ current \in DOMAIN manifests
  BY <1>1 DEF FilesInv, SnapshotInv, Snapshotting, DiskInv
<1>3. current \in DOMAIN manifests' /\ manifests'[current] = manifests[current]
  BY <1>1, <1>2 DEF Keep
<1>4. DiskInv' /\ ClosedInv'
  BY <1>1, <1>3, OtherManifest
<1> QED BY <1>1, <1>4 DEF FilesInv, OpenInv, ReplayInv, SnapshotInv, Snapshotting

-----------------------------------------------------------------------------
(* The invariant, and what it says.                                        *)

LEMMA FilesInit ==
  ASSUME NullIsNoValue, Init
  PROVE  TypeInv /\ FilesInv
<1>1. PICK x : x = [log |-> 3, next |-> 4, last |-> 0, added |-> {}, deleted |-> {}]
  OBVIOUS
<1>2. x \in EditRecord
  BY <1>1 DEF EditRecord
<1>3. PICK d : d = <<x>>
  OBVIOUS
<1>4. /\ d \in Seq(EditOrPiece) /\ Len(d) = 1
      /\ Whole(d, 1) # {} /\ LastEdit(d, 1) = x /\ ApplyEdits(d, 1) = {}
  BY <1>1, <1>2, <1>3, SingleRecord
<1>5. /\ manifests = [n \in {2} |-> [data |-> d, synced |-> 1]]
      /\ logs = [n \in {3} |-> [data |-> <<>>, synced |-> 0]]
      /\ tables = <<>> /\ current = 2
  BY <1>1, <1>3 DEF Init, Empty
<1>6. HasFiles(manifests, EditOrPiece)
  BY <1>4, <1>5 DEF HasFiles
<1>7. HasFiles(logs, Entry)
  BY <1>5 DEF HasFiles
<1>8. DOMAIN tables = {}
  BY <1>5
<1>9. DiskTypes
  BY <1>5, <1>6, <1>7, <1>8 DEF DiskTypes
<1>10. MemoryTypes
  BY DEF Init, MemoryTypes, Phases
<1>11. Manifest = [data |-> d, synced |-> 1] /\ PossibleLengths = {1}
  <2>1. Manifest = [data |-> d, synced |-> 1]
    BY <1>5 DEF Manifest
  <2>2. PossibleLengths = 1 .. 1
    BY <1>4, <2>1 DEF PossibleLengths
  <2> QED BY <2>1, <2>2
<1>12. ToSet(<<>>) = {}
  BY DEF ToSet
<1>13. /\ DataOf(tables, {}) = {} /\ LogData(logs, 3) = {} /\ Ids({}) = {}
  BY <1>5, <1>12 DEF DataOf, LogData, From, Ids
<1>14. /\ mem = {} /\ imm = NULL /\ pinned = NULL /\ version = {} /\ promised = {}
       /\ flush = NULL /\ merge = NULL /\ edit = NULL /\ bg_error = FALSE /\ phase = "up"
       /\ logfile_number = 3 /\ log_number = 3 /\ manifest_file_number = 2
       /\ next_file_number = 4 /\ last_sequence = 0
  BY DEF Init
<1>15. DiskInv
  <2>1. x.log = 3 /\ x.next = 4 /\ x.last = 0
    BY <1>1
  <2>2. Described(d, 1, current, tables, logs, promised)
    <3>1. NumbersAreUnique(DataOf(tables, ApplyEdits(d, 1)) \cup LogData(logs, LastEdit(d, 1).log))
      BY <1>4, <1>13, <2>1 DEF NumbersAreUnique
    <3> QED BY <1>4, <1>5, <1>14, <2>1, <3>1 DEF Described
  <2> QED BY <1>5, <1>11, <2>2 DEF DiskInv
<1>16. Known = {} /\ Present = {}
  BY <1>13, <1>14 DEF Known, Present, Entries
<1>17. NumbersInv /\ MemoryInv /\ HeldInv /\ ContentsInv /\ WorkInv /\ EditInv
  <2>1. NumbersInv
    BY <1>5, <1>14 DEF NumbersInv
  <2>2. MemoryInv
    BY <1>14 DEF MemoryInv
  <2>3. HeldInv /\ WorkInv /\ EditInv
    BY <1>14 DEF HeldInv, WorkInv, EditInv, Entries
  <2>4. ContentsInv
    BY <1>14, <1>16 DEF ContentsInv, NumbersAreUnique
  <2> QED BY <2>1, <2>2, <2>3, <2>4
<1>18. ManifestInv
  <2>1. \A k \in PossibleLengths : k = 1
    BY <1>11
  <2>2. /\ x.log = 3 /\ x.next = 4 /\ x.last = 0
        /\ Manifest.data = d /\ Len(Manifest.data) = 1
    BY <1>1, <1>4, <1>11
  <2>3. ASSUME NEW k \in PossibleLengths
        PROVE  LET last == LastEdit(Manifest.data, k)
               IN /\ log_number <= last.log /\ last.log <= logfile_number
                  /\ last.next <= next_file_number /\ last.last <= last_sequence
                  /\ DataOf(tables, ApplyEdits(Manifest.data, k)) \subseteq Known
    <3>1. LastEdit(Manifest.data, k) = x /\ ApplyEdits(Manifest.data, k) = {}
      BY <1>4, <2>1, <2>2
    <3> QED BY <1>13, <1>14, <2>2, <3>1
  <2>4. VersionAt(Len(Manifest.data)) = {}
    BY <1>4, <2>2 DEF VersionAt
  <2> QED BY <1>14, <2>3, <2>4 DEF ManifestInv, VersionAt
<1> QED BY <1>9, <1>10, <1>14, <1>15, <1>17, <1>18
        DEF TypeInv, FilesInv, OpenInv, ClosedInv, ReplayInv, SnapshotInv, Snapshotting

LEMMA FilesStutter ==
  ASSUME TypeInv, FilesInv, UNCHANGED vars
  PROVE  TypeInv' /\ FilesInv'
<1> USE DEF vars, directory, numbers, background, history
<1>1. TypeInv'
  BY DEF TypeInv, DiskTypes, MemoryTypes
<1>2. /\ Manifest' = Manifest /\ PossibleLengths' = PossibleLengths /\ Known' = Known
      /\ Appended' = Appended /\ Present' = Present /\ SafeInLog' = SafeInLog
  BY DEF Manifest, PossibleLengths, Known, Appended, Present, SafeInLog
<1>3. DiskInv'
  BY <1>2 DEF FilesInv, DiskInv
<1>4. OpenInv'
  BY <1>2 DEF FilesInv, OpenInv, NumbersInv, MemoryInv, HeldInv, ContentsInv, ManifestInv,
              WorkInv, EditInv, Complete, VersionAt
<1>5. ClosedInv' /\ ReplayInv' /\ SnapshotInv'
  BY <1>2 DEF FilesInv, ClosedInv, ReplayInv, SnapshotInv, SnapshotReady, SnapshotWritten,
              Complete, VersionAt
<1> QED BY <1>1, <1>3, <1>4, <1>5 DEF FilesInv

LEMMA FilesNext ==
  ASSUME NullIsNoValue, TypeInv, FilesInv, [Next]_vars
  PROVE  TypeInv' /\ FilesInv'
<1>1. ASSUME NEW sync \in BOOLEAN, Write(sync) \/ FailWrite(sync) PROVE TypeInv' /\ FilesInv'
  <2>1. TypeInv'
    BY <1>1, TypeUp
  <2>2. PICK e \in Entry, synced \in BOOLEAN : AddsRecord(e, synced)
    BY <1>1, WriteAddsRecord
  <2> QED BY <2>1, <2>2, RecordStep
<1>2. CASE MakeRoomForWrite \/ NewInternalIterator \/ CleanupIteratorState
  <2>1. TypeInv'
    BY <1>2, TypeUp
  <2> QED BY <1>2, <2>1, MakeRoomStep, IteratorStep
<1>3. CASE BeginFlush \/ EndFlush \/ BeginMerge \/ EndMerge
  <2>1. TypeInv'
    BY <1>3, TypeUp
  <2> QED BY <1>3, <2>1, BeginFlushStep, EndFlushStep, BeginMergeStep, EndMergeStep
<1>4. CASE AppendEdit \/ SyncEdit \/ FailEdit \/ InstallEdit
  <2>1. TypeInv'
    BY <1>4, TypeBack
  <2> QED BY <1>4, <2>1, AppendEditStep, SyncEditStep, FailEditStep, InstallEditStep
<1>5. CASE Crash
  <2>1. TypeInv'
    BY <1>5, TypeBack
  <2> QED BY <1>5, <2>1, CrashStep
<1>6. CASE Open
  <2>1. TypeInv'
    BY <1>6, TypeOpen
  <2> QED BY <1>6, <2>1, RecoverStep, RecoverLogStep, OpenLogStep, WriteSnapshotStep,
             SyncNewManifestStep, SetCurrentFileStep, OpenInstallStep, OpenFailsStep DEF Open
<1>7. CASE UNCHANGED vars
  BY <1>7, FilesStutter
<1> QED BY <1>1, <1>2, <1>3, <1>4, <1>5, <1>6, <1>7 DEF Next

LEMMA FilesHold ==
  ASSUME NullIsNoValue
  PROVE  Spec => [](TypeInv /\ FilesInv)
<1>1. Init => TypeInv /\ FilesInv
  BY FilesInit
<1>2. TypeInv /\ FilesInv /\ [Next]_vars => TypeInv' /\ FilesInv'
  BY FilesNext
<1> QED BY <1>1, <1>2, PTL DEF Spec

\* DeleteObsoleteFiles spares, whatever happens, the tables of the current
\* version, of versions iterators hold, of a running merge, and those of every
\* version the manifest can come back with after a crash.
THEOREM NothingInUseIsDeleted ==
  ASSUME NullIsNoValue
  PROVE  Spec => []FilesInUseExist
<1>1. ASSUME TypeInv, FilesInv PROVE FilesInUseExist
  <2>1. DiskInv
    BY <1>1 DEF FilesInv
  <2>2. \A k \in PossibleLengths :
          Whole(Manifest.data, k) # {} /\ \A n \in VersionAt(k) : Complete(n)
    BY <2>1 DEF DiskInv, Described, VersionAt, Complete
  <2>3. CASE phase = "up"
    <3>1. HeldInv /\ WorkInv
      BY <1>1, <2>3, OpenFacts
    <3> QED BY <2>1, <2>2, <3>1 DEF FilesInUseExist, HeldInv, WorkInv, DiskInv
  <2> QED BY <2>1, <2>2, <2>3 DEF FilesInUseExist, DiskInv
<1> QED BY <1>1, FilesHold, PTL

\* A write that was acknowledged after a sync, to a log no append to which had
\* failed, is, whenever the machine stops, in the tables of the version the
\* manifest comes back with or in the logs that version makes DB::Open replay.
THEOREM SyncedWritesAreFound ==
  ASSUME NullIsNoValue
  PROVE  Spec => []SyncedWritesSurvive
<1>1. ASSUME TypeInv, FilesInv PROVE SyncedWritesSurvive
  <2>1. ASSUME NEW k \in PossibleLengths
        PROVE  /\ Whole(Manifest.data, k) # {}
               /\ promised \subseteq
                    Ids(TableEntries(VersionAt(k) \cap DOMAIN tables))
                      \cup Ids(UNION {SurelyRead(logs[n]) : n \in {m \in DOMAIN logs : m >= LogAt(k)}})
    <3>1. Described(Manifest.data, k, current, tables, logs, promised)
      BY <1>1 DEF FilesInv, DiskInv
    <3>2. VersionAt(k) \cap DOMAIN tables = VersionAt(k)
      BY <3>1 DEF Described, VersionAt
    <3>3. DataOf(tables, ApplyEdits(Manifest.data, k)) = TableEntries(VersionAt(k) \cap DOMAIN tables)
      BY <3>2 DEF DataOf, TableEntries, VersionAt
    <3>4. SyncedData(logs, LastEdit(Manifest.data, k).log)
            = UNION {SurelyRead(logs[n]) : n \in {m \in DOMAIN logs : m >= LogAt(k)}}
      BY DEF SyncedData, From, LogAt
    <3> QED BY <3>1, <3>3, <3>4 DEF Described
  <2> QED BY <2>1 DEF SyncedWritesSurvive
<1> QED BY <1>1, FilesHold, PTL

\* Only VersionSet::Recover finds a database corrupt, and what it sees is the
\* piece of a failed edit with a later one behind it: the manifest has a whole
\* record and every table it names is there.
CorruptInv == phase = "corrupt" => Torn(Manifest.data)

LEMMA RefusedOnlyTorn ==
  ASSUME TypeInv, FilesInv, Recover
  PROVE  CorruptInv'
<1>1. PICK d, size : d = Manifest.data /\ size = Len(Manifest.data)
  OBVIOUS
<1>2. Described(d, size, current, tables, logs, promised)
  BY <1>1, ClosedFacts DEF Recover
<1>3. Whole(d, size) # {} /\ ApplyEdits(d, size) \subseteq DOMAIN tables
  BY <1>2 DEF Described
<1>4. phase' = "corrupt" => Torn(d)
  BY <1>1, <1>3 DEF Recover
<1>5. Manifest' = Manifest
  BY SameManifest DEF Recover, directory
<1> QED BY <1>1, <1>4, <1>5 DEF CorruptInv

LEMMA CorruptNext ==
  ASSUME NullIsNoValue, TypeInv, FilesInv, CorruptInv, [Next]_vars
  PROVE  CorruptInv'
<1>1. CASE Recover
  BY <1>1, RefusedOnlyTorn
<1>2. CASE UNCHANGED vars
  BY <1>2 DEF CorruptInv, Manifest, vars, directory
<1>3. CASE ~Recover /\ ~UNCHANGED vars
  <2>1. phase' # "corrupt"
    <3>1. CASE \E sync \in BOOLEAN : Write(sync) \/ FailWrite(sync)
      BY <3>1 DEF Write, FailWrite
    <3>2. CASE MakeRoomForWrite \/ NewInternalIterator \/ BeginFlush \/ EndFlush
                 \/ BeginMerge \/ EndMerge
      BY <3>2 DEF MakeRoomForWrite, NewInternalIterator, BeginFlush, EndFlush, BeginMerge, EndMerge
    <3>3. CASE CleanupIteratorState
      <4>1. phase = "up"
        BY <3>3 DEF CleanupIteratorState, FilesInv, ClosedInv
      <4> QED BY <3>3, <4>1 DEF CleanupIteratorState
    <3>4. CASE AppendEdit \/ SyncEdit \/ FailEdit \/ InstallEdit \/ Crash
      BY <3>4 DEF AppendEdit, SyncEdit, FailEdit, InstallEdit, Crash
    <3>5. CASE Open
      BY <1>3, <3>5 DEF Open, RecoverLogFile, OpenLog, WriteSnapshot, SyncNewManifest,
                        SetCurrentFile, OpenInstall, OpenFails
    <3> QED BY <1>3, <3>1, <3>2, <3>3, <3>4, <3>5 DEF Next
  <2> QED BY <2>1 DEF CorruptInv
<1> QED BY <1>1, <1>2, <1>3

\* When DB::Open is done, and from then on, the database has every write that was
\* acknowledged after a sync to a log no append to which had failed, no sequence
\* number twice, and goes on counting after those it holds; and DB::Open refuses
\* a database only if an edit follows the piece of a failed one in its manifest.
THEOREM OpenFindsEverything ==
  ASSUME NullIsNoValue
  PROVE  Spec => []OpenDatabaseIsComplete
<1>1. ASSUME TypeInv, FilesInv, CorruptInv PROVE OpenDatabaseIsComplete
  <2>1. SUFFICES ASSUME phase = "up"
                 PROVE  /\ promised \subseteq Ids(Contents)
                        /\ \A e \in Contents : e.seq <= last_sequence
                        /\ \A e, f \in Contents : e.seq = f.seq => e.id = f.id
    BY <1>1 DEF OpenDatabaseIsComplete, CorruptInv
  <2>2. HeldInv /\ ContentsInv
    BY <1>1, <2>1, OpenFacts
  <2>3. version \cap DOMAIN tables = version
    BY <2>2 DEF HeldInv, Complete
  <2>4. Contents = Known /\ Contents \subseteq Present
    BY <2>3 DEF Contents, Known, Present, TableEntries, DataOf
  <2> QED BY <2>2, <2>4 DEF ContentsInv, NumbersAreUnique
<1>2. Init => CorruptInv
  BY DEF Init, CorruptInv
<1>3. TypeInv /\ FilesInv /\ CorruptInv /\ [Next]_vars => CorruptInv'
  BY CorruptNext
<1> QED BY <1>1, <1>2, <1>3, FilesHold, PTL DEF Spec
=============================================================================
