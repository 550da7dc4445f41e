------------------------------ MODULE EventStore ------------------------------
(***************************************************************************)
(* Where a detection goes: FirebaseHelper.addDetection, the Firebase       *)
(* database and storage clients it calls, and the two services behind      *)
(* them, for the devices signed in under one login (users/<login>).        *)
(*                                                                         *)
(* addDetection starts the upload of the image and sets three fields of    *)
(* the record users/<login>/<date>; the field url is set much later, from  *)
(* the completion of the upload.  The database client keeps every write on *)
(* disk until the server acknowledges it (isPersistenceEnabled), sends     *)
(* unacknowledged writes again after a reconnection or a restart, and      *)
(* shows its own writes on top of what it knows of the server; HistoryVC   *)
(* observes that view.  The process may die at any point.                  *)
(***************************************************************************)
EXTENDS Naturals, Sequences

CONSTANTS
    Devices,
    Detections,   \* the detections that can happen
    DeviceOf,     \* the device each happens on
    KeyOf,        \* the key of its record: its date, to the millisecond
    NoDetection,
    MaxFaults,    \* bound: crashes, lost connections and failed requests
    CrashInAck    \* whether a crash may fall between the two disk
                  \* operations that acknowledge a write

Keys == {KeyOf[n] : n \in Detections}

ASSUME ConstantsAssumption ==
    /\ DeviceOf \in [Detections -> Devices]
    /\ NoDetection \notin Detections
    /\ MaxFaults \in Nat
    /\ CrashInAck \in BOOLEAN

Fields == {"millis", "score", "school", "url"}
Writes == [key : Keys, field : Fields, from : Detections]

\* A tree of records: which detection each field was last set from.
Trees == [Keys -> [Fields -> Detections \cup {NoDetection}]]
EmptyTree == [k \in Keys |-> [f \in Fields |-> NoDetection]]

VARIABLES
    alive,        \* the process of a device runs
    detections,   \* FirebaseHelper.detections
    upload,       \* stage of the upload of a detection's image
    sharedQueue,  \* calls of setValue dispatched, not yet executed
    userWrites,   \* the writes saved to disk so far; writeId is the index
    acked,        \* those up to this writeId are acknowledged and removed
    acking,       \* the last of them is not yet in the cache
    applied,      \* those up to this writeId the server applied, as far as
                  \* this connection goes
    inbox,        \* messages from the server
    observing,    \* HistoryVC has an active listener
    cache,        \* what the disk holds of the server's tree
    loaded,       \* the disk has had the complete tree
    server,       \* the tree of the database service
    storage,      \* the images in the storage service
    faults

diskVars == <<userWrites, acked, acking, cache, loaded>>
netVars == <<applied, inbox>>
vars == <<alive, detections, upload, sharedQueue, diskVars, netVars, observing,
          server, storage, faults>>

SetField(tree, w) == [tree EXCEPT ![w.key][w.field] = w.from]

\* Broken variant of WriteOf: the url is taken before it is known.
WriteOfNoURL(n, f) == [key |-> KeyOf[n], field |-> f,
                       from |-> IF f = "url" THEN NoDetection ELSE n]

\* eventRef.child(f).setValue of the field f of detection n.
WriteOf(n, f) == [key |-> KeyOf[n], field |-> f, from |-> n]

Update(w) == [type |-> "update", write |-> w]
Ack(i) == [type |-> "ack", writeId |-> i]
Snapshot(tree) == [type |-> "snapshot", tree |-> tree]

Init ==
    /\ alive = [d \in Devices |-> TRUE]
    /\ detections = [d \in Devices |-> <<>>]
    /\ upload = [n \in Detections |-> "none"]
    /\ sharedQueue = [d \in Devices |-> <<>>]
    /\ userWrites = [d \in Devices |-> <<>>]
    /\ acked = [d \in Devices |-> 0]
    /\ acking = [d \in Devices |-> FALSE]
    /\ applied = [d \in Devices |-> 0]
    /\ inbox = [d \in Devices |-> <<>>]
    /\ observing = [d \in Devices |-> FALSE]
    /\ cache = [d \in Devices |-> EmptyTree]
    /\ loaded = [d \in Devices |-> FALSE]
    /\ server = EmptyTree
    /\ storage = {}
    /\ faults = 0

-----------------------------------------------------------------------------
(* The program                                                             *)

\* Broken variant of addDetection: the school is never stored.
addDetectionNoSchool(n) ==
    LET d == DeviceOf[n] IN
    /\ alive[d]
    /\ upload[n] = "none"
    /\ upload' = [upload EXCEPT ![n] = "put"]
    /\ sharedQueue' = [sharedQueue EXCEPT ![d] =
                         @ \o <<WriteOf(n, "millis"), WriteOf(n, "score")>>]
    /\ detections' = [detections EXCEPT ![d] = Append(@, n)]
    /\ UNCHANGED <<alive, diskVars, netVars, observing, server, storage, faults>>

\* The upload is started first; the three setValue calls do not wait for it.
\* Every caller passes a detection with an image.
addDetection(n) ==
    LET d == DeviceOf[n] IN
    /\ alive[d]
    /\ upload[n] = "none"
    /\ upload' = [upload EXCEPT ![n] = "put"]
    /\ sharedQueue' = [sharedQueue EXCEPT ![d] =
                         @ \o <<WriteOf(n, "millis"), WriteOf(n, "score"),
                                WriteOf(n, "school")>>]
    /\ detections' = [detections EXCEPT ![d] = Append(@, n)]
    /\ UNCHANGED <<alive, diskVars, netVars, observing, server, storage, faults>>

\* The completion of putData, with metadata: ask for the download URL.
putDataCompleted(n) ==
    /\ upload[n] = "stored"
    /\ upload' = [upload EXCEPT ![n] = "url"]
    /\ UNCHANGED <<alive, detections, sharedQueue, diskVars, netVars, observing,
                   server, storage, faults>>

\* The completion of downloadURL: set the last field of the record.
downloadURLCompleted(n) ==
    /\ upload[n] = "url"
    /\ upload' = [upload EXCEPT ![n] = "done"]
    /\ sharedQueue' = [sharedQueue EXCEPT ![DeviceOf[n]] =
                         Append(@, WriteOf(n, "url"))]
    /\ UNCHANGED <<alive, detections, diskVars, netVars, observing, server,
                   storage, faults>>

\* Either completion with an error is logged and forgotten; the image may
\* have been stored all the same.
completedWithError(n) ==
    /\ faults < MaxFaults
    /\ upload[n] \in {"put", "stored", "url"}
    /\ upload' = [upload EXCEPT ![n] = "failed"]
    /\ faults' = faults + 1
    /\ UNCHANGED <<alive, detections, sharedQueue, diskVars, netVars, observing,
                   server, storage>>

\* HistoryVC.populateCells: the server answers the listen with the tree as
\* it is.  Acknowledgements that arrive before that answer wait for it.
observe(d) ==
    /\ alive[d]
    /\ ~acking[d]
    /\ ~observing[d]
    /\ observing' = [observing EXCEPT ![d] = TRUE]
    /\ inbox' = [inbox EXCEPT ![d] = <<Snapshot(server)>> \o @]
    /\ UNCHANGED <<alive, detections, upload, sharedQueue, diskVars, applied,
                   server, storage, faults>>

-----------------------------------------------------------------------------
(* The database client                                                     *)

\* FRepo set: on the shared queue, the write is saved to disk and shown.
set(d) ==
    /\ sharedQueue[d] # <<>>
    /\ ~acking[d]
    /\ userWrites' = [userWrites EXCEPT ![d] = Append(@, Head(sharedQueue[d]))]
    /\ sharedQueue' = [sharedQueue EXCEPT ![d] = Tail(@)]
    /\ UNCHANGED <<alive, detections, upload, acked, acking, cache, loaded,
                   netVars, observing, server, storage, faults>>

\* FSyncTree ackUserWrite, first half: the write leaves the disk.
ackUserWrite(d, writeId) ==
    /\ acked' = [acked EXCEPT ![d] = writeId]
    /\ acking' = [acking EXCEPT ![d] = TRUE]

\* Broken variant of applyUserWrite: the write is never cached.
dropUserWrite(d) ==
    /\ acking[d]
    /\ acking' = [acking EXCEPT ![d] = FALSE]
    /\ UNCHANGED <<alive, detections, upload, sharedQueue, userWrites, acked,
                   cache, loaded, netVars, observing, server, storage, faults>>

\* Second half, in the same call on the shared queue: unless a listener is
\* active, which has received it from the server, the write is cached.
applyUserWrite(d) ==
    /\ acking[d]
    /\ acking' = [acking EXCEPT ![d] = FALSE]
    /\ \/ observing[d] /\ UNCHANGED cache
       \/ /\ ~observing[d]
          /\ cache' = [cache EXCEPT ![d] = SetField(@, userWrites[d][acked[d]])]
    /\ UNCHANGED <<alive, detections, upload, sharedQueue, userWrites, acked,
                   loaded, netVars, observing, server, storage, faults>>

receive(d) ==
    /\ inbox[d] # <<>>
    /\ ~acking[d]
    /\ inbox' = [inbox EXCEPT ![d] = Tail(@)]
    /\ LET m == Head(inbox[d]) IN
         \/ /\ m.type = "ack"
            /\ ackUserWrite(d, m.writeId)
            /\ UNCHANGED <<cache, loaded>>
         \/ /\ m.type = "update"
            /\ cache' = [cache EXCEPT ![d] = SetField(@, m.write)]
            /\ UNCHANGED <<acked, acking, loaded>>
         \/ /\ m.type = "snapshot"
            /\ cache' = [cache EXCEPT ![d] = m.tree]
            /\ loaded' = [loaded EXCEPT ![d] = TRUE]
            /\ UNCHANGED <<acked, acking>>
    /\ UNCHANGED <<alive, detections, upload, sharedQueue, userWrites, applied,
                   observing, server, storage, faults>>

\* Broken variant of reconnect: the listen is not sent again.
reconnectNoListen(d) ==
    /\ alive[d]
    /\ ~acking[d]
    /\ faults < MaxFaults
    /\ applied' = [applied EXCEPT ![d] = acked[d]]
    /\ inbox' = [inbox EXCEPT ![d] = <<>>]
    /\ faults' = faults + 1
    /\ UNCHANGED <<alive, detections, upload, sharedQueue, diskVars, observing,
                   server, storage>>

\* Broken variant of reconnect: no write is sent again.
reconnectNoResend(d) ==
    /\ alive[d]
    /\ ~acking[d]
    /\ faults < MaxFaults
    /\ applied' = [applied EXCEPT ![d] = Len(userWrites[d])]
    /\ inbox' = [inbox EXCEPT ![d] =
                   IF observing[d] THEN <<Snapshot(server)>> ELSE <<>>]
    /\ faults' = faults + 1
    /\ UNCHANGED <<alive, detections, upload, sharedQueue, diskVars, observing,
                   server, storage>>

\* The connection is lost with all it carried and set up again: first the
\* listen, then every unacknowledged write in order, sent before or not.
reconnect(d) ==
    /\ alive[d]
    /\ ~acking[d]
    /\ faults < MaxFaults
    /\ applied' = [applied EXCEPT ![d] = acked[d]]
    /\ inbox' = [inbox EXCEPT ![d] =
                   IF observing[d] THEN <<Snapshot(server)>> ELSE <<>>]
    /\ faults' = faults + 1
    /\ UNCHANGED <<alive, detections, upload, sharedQueue, diskVars, observing,
                   server, storage>>

-----------------------------------------------------------------------------
(* The services                                                            *)

\* The database applies the next write of a device, tells every listener
\* and then acknowledges it.
serverApply(d) ==
    /\ applied[d] < Len(userWrites[d])
    /\ alive[d]
    /\ LET w == userWrites[d][applied[d] + 1] IN
         /\ server' = SetField(server, w)
         /\ inbox' = [e \in Devices |->
                inbox[e] \o (IF observing[e] THEN <<Update(w)>> ELSE <<>>)
                         \o (IF e = d THEN <<Ack(applied[d] + 1)>> ELSE <<>>)]
    /\ applied' = [applied EXCEPT ![d] = @ + 1]
    /\ UNCHANGED <<alive, detections, upload, sharedQueue, diskVars, observing,
                   storage, faults>>

\* The storage service has the whole image.
storageCommit(n) ==
    /\ upload[n] = "put"
    /\ storage' = storage \cup {n}
    /\ upload' = [upload EXCEPT ![n] = "stored"]
    /\ UNCHANGED <<alive, detections, sharedQueue, diskVars, netVars, observing,
                   server, faults>>

-----------------------------------------------------------------------------
(* Crash and restart                                                       *)

\* Only the disk survives; an upload under way is not taken up again.
crash(d) ==
    /\ alive[d]
    /\ acking[d] => CrashInAck
    /\ faults < MaxFaults
    /\ alive' = [alive EXCEPT ![d] = FALSE]
    /\ detections' = [detections EXCEPT ![d] = <<>>]
    /\ upload' = [n \in Detections |->
                    IF DeviceOf[n] = d /\ upload[n] \in {"put", "stored", "url"}
                    THEN "failed" ELSE upload[n]]
    /\ sharedQueue' = [sharedQueue EXCEPT ![d] = <<>>]
    /\ applied' = [applied EXCEPT ![d] = acked[d]]
    /\ inbox' = [inbox EXCEPT ![d] = <<>>]
    /\ observing' = [observing EXCEPT ![d] = FALSE]
    /\ acking' = [acking EXCEPT ![d] = FALSE]
    /\ faults' = faults + 1
    /\ UNCHANGED <<userWrites, acked, cache, loaded, server, storage>>

\* FRepo restoreWrites: the writes on disk are pending again, in order.
restart(d) ==
    /\ ~alive[d]
    /\ alive' = [alive EXCEPT ![d] = TRUE]
    /\ UNCHANGED <<detections, upload, sharedQueue, diskVars, netVars, observing,
                   server, storage, faults>>

-----------------------------------------------------------------------------

Uploading(n) == storageCommit(n) \/ putDataCompleted(n)
                  \/ downloadURLCompleted(n)

Client(d) == set(d) \/ receive(d) \/ applyUserWrite(d)

Next ==
    \/ \E n \in Detections :
          addDetection(n) \/ Uploading(n) \/ completedWithError(n)
    \/ \E d \in Devices :
          observe(d) \/ Client(d) \/ serverApply(d) \/ reconnect(d)
            \/ crash(d) \/ restart(d)

Spec == Init /\ [][Next]_vars

\* Dispatch queues run, a request on a connection that lasts is answered,
\* and the app is started again some time after it died.
Fairness ==
    /\ \A n \in Detections : WF_vars(Uploading(n))
    /\ \A d \in Devices : /\ WF_vars(Client(d))
                          /\ WF_vars(serverApply(d))
                          /\ WF_vars(restart(d))

FairSpec == Spec /\ Fairness

-----------------------------------------------------------------------------
(* Properties                                                              *)

Messages == [type : {"update"}, write : Writes]
              \cup [type : {"ack"}, writeId : Nat]
              \cup [type : {"snapshot"}, tree : Trees]

\* Type invariant of the helper, the clients and the services.
TypeOK ==
    /\ alive \in [Devices -> BOOLEAN]
    /\ detections \in [Devices -> Seq(Detections)]
    /\ upload \in [Detections ->
                    {"none", "put", "stored", "url", "done", "failed"}]
    /\ sharedQueue \in [Devices -> Seq(Writes)]
    /\ userWrites \in [Devices -> Seq(Writes)]
    /\ acked \in [Devices -> Nat]
    /\ acking \in [Devices -> BOOLEAN]
    /\ applied \in [Devices -> Nat]
    /\ inbox \in [Devices -> Seq(Messages)]
    /\ observing \in [Devices -> BOOLEAN]
    /\ cache \in [Devices -> Trees]
    /\ loaded \in [Devices -> BOOLEAN]
    /\ server \in Trees
    /\ storage \subseteq Detections
    /\ faults \in Nat

\* What device d shows: its pending writes on top of its cache.  The write
\* being acknowledged counts, for the shared queue serves no reader until
\* that is done.
Pending(d, k, f) ==
    {i \in 1..Len(userWrites[d]) :
        /\ i > acked[d] \/ (i = acked[d] /\ acking[d])
        /\ userWrites[d][i].key = k /\ userWrites[d][i].field = f}
View(d) ==
    [k \in Keys |-> [f \in Fields |->
        IF Pending(d, k, f) = {} THEN cache[d][k][f]
        ELSE userWrites[d][CHOOSE i \in Pending(d, k, f) :
                             \A j \in Pending(d, k, f) : j <= i].from]]

HasField(tree, k, f) == tree[k][f] # NoDetection
Complete(tree, k) == \A f \in Fields \ {"url"} : HasField(tree, k, f)

\* A record on the server that has its url has every other field, although
\* they are set by different callbacks and a crash may fall between them.
ServerUrlImpliesComplete ==
    \A k \in Keys : HasField(server, k, "url") => Complete(server, k)

\* HistoryVC builds a Detection, with casts that trap, from every record of
\* its view that has a url: such a record has all fields the casts need,
\* whatever is cached, pending, acknowledged or sent again.
CastsAreSafe ==
    \A d \in Devices : observing[d] /\ loaded[d] =>
        \A k \in Keys : HasField(View(d), k, "url") => Complete(View(d), k)

\* A listener that has received everything sent to it knows the server's
\* tree, whoever wrote last and whatever its connection went through.
DeliveredMeansCurrent ==
    \A d \in Devices :
        observing[d] /\ inbox[d] = <<>> => loaded[d] /\ cache[d] = server

\* What a device has shown it does not stop showing: not when a write is
\* acknowledged, the connection is lost or the process dies.  It is what the
\* client's documentation of isPersistenceEnabled says of a restart, and it
\* holds unless the process dies inside ackUserWrite.
ViewNeverShrinks ==
    [][\A d \in Devices : loaded[d] =>
         \A k \in Keys, f \in Fields :
            HasField(View(d), k, f) => HasField(View(d)', k, f)]_vars

\* A write that reached the disk reaches the server, in spite of crashes
\* and lost connections.
WritesReachServer ==
    \A d \in Devices, n \in Detections, f \in Fields :
        (\E i \in 1..Len(userWrites[d]) : userWrites[d][i] = WriteOf(n, f))
            ~> (server[KeyOf[n]][f] # NoDetection)
=============================================================================
