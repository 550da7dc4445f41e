--------------------------- MODULE EventStoreProofs ---------------------------
(***************************************************************************)
(* Theorems about EventStore, for any number of devices, detections and    *)
(* faults and any assignment of keys, equal keys included.                 *)
(***************************************************************************)
EXTENDS EventStore, SequenceTheorems, WellFoundedInduction, TLAPS

\* A write is removed only after the server applied it, one being removed is
\* in the log, and an ack on its way names a write the server applied.
WriteIdsOK ==
    \A d \in Devices :
        /\ acked[d] <= applied[d]
        /\ acking[d] => 1 <= acked[d]
        /\ applied[d] <= Len(userWrites[d])
        /\ \A i \in 1..Len(inbox[d]) :
             inbox[d][i].type = "ack" => inbox[d][i].writeId \in 1..applied[d]

TypeInv == TypeOK /\ WriteIdsOK

LEMMA SetFieldType ==
    ASSUME NEW tree \in Trees, NEW w \in Writes
    PROVE  SetField(tree, w) \in Trees
  BY DEF SetField, Trees, Writes

LEMMA WriteOfType ==
    ASSUME NEW n \in Detections, NEW f \in Fields
    PROVE  WriteOf(n, f) \in Writes
  BY DEF WriteOf, Writes, Keys

LEMMA EmptyTreeType == EmptyTree \in Trees
  BY DEF EmptyTree, Trees

LEMMA MessageTypes ==
    /\ \A w \in Writes : Update(w) \in Messages
    /\ \A i \in Nat : Ack(i) \in Messages
    /\ \A t \in Trees : Snapshot(t) \in Messages
    /\ \A m \in Messages : /\ m.type = "ack" => m.writeId \in Nat
                           /\ m.type = "update" => m.write \in Writes
                           /\ m.type = "snapshot" => m.tree \in Trees
  BY DEF Update, Ack, Snapshot, Messages

LEMMA InitTypeInv == Init => TypeInv
<1> SUFFICES ASSUME Init PROVE TypeInv
  OBVIOUS
<1>1. TypeOK
  BY EmptyTreeType DEF Init, TypeOK
<1>2. WriteIdsOK
  <2> SUFFICES ASSUME NEW d \in Devices
               PROVE  /\ acked[d] <= applied[d]
                      /\ acking[d] => 1 <= acked[d]
                      /\ applied[d] <= Len(userWrites[d])
                      /\ \A i \in 1..Len(inbox[d]) :
                           inbox[d][i].type = "ack"
                             => inbox[d][i].writeId \in 1..applied[d]
    BY DEF WriteIdsOK
  <2>1. /\ acked[d] = 0 /\ ~acking[d] /\ applied[d] = 0
        /\ userWrites[d] = <<>> /\ inbox[d] = <<>>
    BY DEF Init
  <2> QED BY <2>1
<1> QED BY <1>1, <1>2 DEF TypeInv

\* The actions that touch neither the log of writes nor the messages.
LEMMA WriteIdsUnchanged ==
    ASSUME WriteIdsOK, UNCHANGED <<acked, acking, applied, userWrites, inbox>>
    PROVE  WriteIdsOK'
  BY DEF WriteIdsOK

LEMMA NextTypeInv == TypeInv /\ [Next]_vars => TypeInv'
<1> SUFFICES ASSUME TypeInv, [Next]_vars PROVE TypeInv'
  OBVIOUS
<1> USE DEF diskVars, netVars
<1>0. TypeOK /\ WriteIdsOK
  BY DEF TypeInv
<1>1. ASSUME NEW n \in Detections, addDetection(n) PROVE TypeInv'
  <2> DEFINE three == <<WriteOf(n, "millis"), WriteOf(n, "score"),
                        WriteOf(n, "school")>>
             d == DeviceOf[n]
  <2>1. d \in Devices
    BY ConstantsAssumption
  <2>2. three \in Seq(Writes)
    BY WriteOfType DEF Fields
  <2>3. sharedQueue[d] \o three \in Seq(Writes)
    BY <1>0, <2>1, <2>2 DEF TypeOK
  <2>4. sharedQueue' \in [Devices -> Seq(Writes)]
    BY <1>0, <1>1, <2>1, <2>3 DEF addDetection, TypeOK
  <2>5. detections' \in [Devices -> Seq(Detections)]
    BY <1>0, <1>1, <2>1 DEF addDetection, TypeOK
  <2>6. TypeOK'
    BY <1>0, <1>1, <2>4, <2>5 DEF addDetection, TypeOK
  <2> QED BY <1>0, <1>1, <2>6, WriteIdsUnchanged DEF addDetection, TypeInv
<1>2. ASSUME NEW n \in Detections, Uploading(n) \/ completedWithError(n)
      PROVE  TypeInv'
  <2>1. CASE storageCommit(n)
    BY <1>0, <2>1, WriteIdsUnchanged DEF storageCommit, TypeOK, TypeInv
  <2>2. CASE putDataCompleted(n)
    BY <1>0, <2>2, WriteIdsUnchanged DEF putDataCompleted, TypeOK, TypeInv
  <2>3. CASE downloadURLCompleted(n)
    <3>1. DeviceOf[n] \in Devices /\ WriteOf(n, "url") \in Writes
      BY WriteOfType, ConstantsAssumption DEF Fields
    <3>2. sharedQueue' \in [Devices -> Seq(Writes)]
      BY <1>0, <2>3, <3>1 DEF downloadURLCompleted, TypeOK
    <3> QED BY <1>0, <2>3, <3>2, WriteIdsUnchanged
            DEF downloadURLCompleted, TypeOK, TypeInv
  <2>4. CASE completedWithError(n)
    BY <1>0, <2>4, WriteIdsUnchanged DEF completedWithError, TypeOK, TypeInv
  <2> QED BY <1>2, <2>1, <2>2, <2>3, <2>4 DEF Uploading
<1>3. ASSUME NEW d \in Devices, observe(d) PROVE TypeInv'
  <2> DEFINE s == <<Snapshot(server)>> \o inbox[d]
  <2>1. <<Snapshot(server)>> \in Seq(Messages) /\ inbox[d] \in Seq(Messages)
    BY <1>0, MessageTypes DEF TypeOK
  <2>2. /\ s \in Seq(Messages)
        /\ Len(s) = Len(inbox[d]) + 1
        /\ \A i \in 1..Len(s) : s[i] = IF i = 1 THEN Snapshot(server)
                                       ELSE inbox[d][i - 1]
    BY <2>1
  <2>3. inbox' = [inbox EXCEPT ![d] = s]
    BY <1>3 DEF observe
  <2>4. TypeOK'
    BY <1>0, <1>3, <2>2, <2>3 DEF observe, TypeOK
  <2>5. s[1].type = "snapshot" /\ inbox[d] \in Seq(Messages)
    BY <2>1, <2>2 DEF Snapshot
  <2> HIDE DEF s
  <2>6. ASSUME NEW e \in Devices, NEW i \in 1..Len(inbox'[e]),
               inbox'[e][i].type = "ack"
        PROVE  inbox'[e][i].writeId \in 1..applied[e]
    <3>1. CASE e # d
      BY <1>0, <2>3, <2>6, <3>1 DEF TypeOK, WriteIdsOK
    <3>2. CASE e = d
      <4>1. inbox'[e] = s
        BY <1>0, <2>3, <3>2 DEF TypeOK
      <4>2. i # 1 /\ i - 1 \in 1..Len(inbox[d]) /\ s[i] = inbox[d][i - 1]
        BY <2>2, <2>5, <2>6, <4>1, SMTT(30)
      <4> QED BY <1>0, <2>6, <3>2, <4>1, <4>2 DEF WriteIdsOK
    <3> QED BY <3>1, <3>2
  <2>7. WriteIdsOK'
    BY <1>0, <1>3, <2>6 DEF observe, WriteIdsOK
  <2> QED BY <2>4, <2>7 DEF TypeInv
<1>4. ASSUME NEW d \in Devices, set(d) PROVE TypeInv'
  <2>1. Head(sharedQueue[d]) \in Writes /\ Tail(sharedQueue[d]) \in Seq(Writes)
    BY <1>0, <1>4 DEF set, TypeOK
  <2>2. TypeOK'
    BY <1>0, <1>4, <2>1 DEF set, TypeOK
  <2>3. WriteIdsOK'
    BY <1>0, <1>4, <2>1, SMTT(30) DEF set, TypeOK, WriteIdsOK
  <2> QED BY <2>2, <2>3 DEF TypeInv
<1>5. ASSUME NEW d \in Devices, receive(d) PROVE TypeInv'
  <2> DEFINE m == Head(inbox[d])
  <2>1. /\ m \in Messages /\ m = inbox[d][1] /\ 1 \in 1..Len(inbox[d])
        /\ Tail(inbox[d]) \in Seq(Messages)
        /\ Len(Tail(inbox[d])) = Len(inbox[d]) - 1
        /\ \A i \in 1..Len(Tail(inbox[d])) : Tail(inbox[d])[i] = inbox[d][i + 1]
    BY <1>0, <1>5 DEF receive, TypeOK
  <2>2. inbox' = [inbox EXCEPT ![d] = Tail(inbox[d])]
    BY <1>5 DEF receive
  <2>3. m.type = "ack" => m.writeId \in 1..applied[d]
    BY <1>0, <2>1 DEF WriteIdsOK
  <2> HIDE DEF m
  <2>4. m.type = "ack" => m.writeId \in Nat \ {0}
    BY <1>0, <2>3 DEF TypeOK
  <2>5. /\ cache' \in [Devices -> Trees] /\ acked' \in [Devices -> Nat]
        /\ acking' \in [Devices -> BOOLEAN]
        /\ \A e \in Devices : acked'[e] <= applied[e]
        /\ \A e \in Devices : acking'[e] => 1 <= acked'[e]
        /\ loaded' \in [Devices -> BOOLEAN]
    <3>1. CASE m.type = "ack" /\ ackUserWrite(d, m.writeId)
                 /\ UNCHANGED <<cache, loaded>>
      BY <1>0, <2>3, <2>4, <3>1 DEF ackUserWrite, TypeOK, WriteIdsOK
    <3>2. CASE /\ m.type = "update"
               /\ cache' = [cache EXCEPT ![d] = SetField(@, m.write)]
               /\ UNCHANGED <<acked, acking, loaded>>
      <4>1. SetField(cache[d], m.write) \in Trees
        BY <1>0, <2>1, <3>2, SetFieldType, MessageTypes DEF TypeOK
      <4> QED BY <1>0, <3>2, <4>1 DEF TypeOK, WriteIdsOK
    <3>3. CASE /\ m.type = "snapshot"
               /\ cache' = [cache EXCEPT ![d] = m.tree]
               /\ loaded' = [loaded EXCEPT ![d] = TRUE]
               /\ UNCHANGED <<acked, acking>>
      <4>1. m.tree \in Trees
        BY <2>1, <3>3, MessageTypes
      <4> QED BY <1>0, <3>3, <4>1 DEF TypeOK, WriteIdsOK
    <3> QED BY <1>5, <3>1, <3>2, <3>3 DEF receive, m
  <2>6. /\ UNCHANGED <<alive, detections, upload, sharedQueue, userWrites,
                       applied, observing, server, storage, faults>>
    BY <1>5 DEF receive
  <2>7. TypeOK'
    BY <1>0, <2>1, <2>2, <2>5, <2>6 DEF TypeOK
  <2>8. ASSUME NEW e \in Devices, NEW i \in 1..Len(inbox'[e]),
               inbox'[e][i].type = "ack"
        PROVE  inbox'[e][i].writeId \in 1..applied[e]
    <3>1. CASE e # d
      BY <1>0, <2>2, <2>8, <3>1 DEF TypeOK, WriteIdsOK
    <3>2. CASE e = d
      <4>1. inbox'[e] = Tail(inbox[d])
        BY <1>0, <2>2, <3>2 DEF TypeOK
      <4>2. i + 1 \in 1..Len(inbox[d]) /\ inbox'[e][i] = inbox[d][i + 1]
        BY <1>0, <2>1, <2>8, <4>1 DEF TypeOK
      <4> QED BY <1>0, <2>8, <3>2, <4>2 DEF WriteIdsOK
    <3> QED BY <3>1, <3>2
  <2>9. WriteIdsOK'
    <3> SUFFICES ASSUME NEW e \in Devices
                 PROVE  /\ acked'[e] <= applied'[e]
                        /\ acking'[e] => 1 <= acked'[e]
                        /\ applied'[e] <= Len(userWrites'[e])
                        /\ \A i \in 1..Len(inbox'[e]) :
                             inbox'[e][i].type = "ack"
                               => inbox'[e][i].writeId \in 1..applied'[e]
      BY DEF WriteIdsOK
    <3>1. applied'[e] = applied[e] /\ userWrites'[e] = userWrites[e]
      BY <2>6
    <3>2. applied[e] <= Len(userWrites[e])
      BY <1>0 DEF WriteIdsOK
    <3>3. acked'[e] <= applied[e]
      BY <2>5
    <3>a. acking'[e] => 1 <= acked'[e]
      BY <2>5, Zenon
    <3>4. \A i \in 1..Len(inbox'[e]) :
             inbox'[e][i].type = "ack" => inbox'[e][i].writeId \in 1..applied[e]
      BY <2>8
    <3> QED BY <3>1, <3>2, <3>3, <3>4, <3>a
  <2> QED BY <2>7, <2>9 DEF TypeInv
<1>6. ASSUME NEW d \in Devices, serverApply(d) PROVE TypeInv'
  <2> DEFINE w == userWrites[d][applied[d] + 1]
             u(e) == IF observing[e] THEN <<Update(w)>> ELSE <<>>
             a(e) == IF e = d THEN <<Ack(applied[d] + 1)>> ELSE <<>>
  <2>1. w \in Writes /\ applied[d] + 1 \in Nat
    BY <1>0, <1>6 DEF serverApply, TypeOK
  <2>2. \A e \in Devices : u(e) \in Seq(Messages) /\ a(e) \in Seq(Messages)
    BY <2>1, MessageTypes
  <2>3. inbox' = [e \in Devices |-> inbox[e] \o u(e) \o a(e)]
    BY <1>6 DEF serverApply
  <2>4. applied' = [applied EXCEPT ![d] = applied[d] + 1]
    BY <1>6 DEF serverApply
  <2>5. \A e \in Devices :
           /\ inbox'[e] \in Seq(Messages)
           /\ \A i \in 1..Len(inbox'[e]) :
                 inbox'[e][i].type = "ack"
                   => inbox'[e][i].writeId \in 1..applied'[e]
    <3> SUFFICES ASSUME NEW e \in Devices
                 PROVE  /\ inbox'[e] \in Seq(Messages)
                        /\ \A i \in 1..Len(inbox'[e]) :
                              inbox'[e][i].type = "ack"
                                => inbox'[e][i].writeId \in 1..applied'[e]
      OBVIOUS
    <3> DEFINE p == inbox[e] \o u(e)
               q == p \o a(e)
    <3>1. inbox[e] \in Seq(Messages) /\ u(e) \in Seq(Messages)
            /\ a(e) \in Seq(Messages)
      BY <1>0, <2>2 DEF TypeOK
    <3>2. \A i \in 1..Len(u(e)) : u(e)[i].type = "update"
      BY DEF Update
    <3>3. \A i \in 1..Len(a(e)) : e = d /\ a(e)[i].writeId = applied[d] + 1
      BY DEF Ack
    <3>4. applied[e] \in Nat /\ applied'[e] \in Nat /\ applied[e] <= applied'[e]
            /\ (e = d => applied'[e] = applied[d] + 1)
      BY <1>0, <2>4 DEF TypeOK
    <3>5. \A i \in 1..Len(inbox[e]) :
             inbox[e][i].type = "ack" => inbox[e][i].writeId \in 1..applied'[e]
      BY <1>0, <3>4 DEF WriteIdsOK
    <3> HIDE DEF u, a
    <3>6. /\ p \in Seq(Messages)
          /\ Len(p) = Len(inbox[e]) + Len(u(e))
          /\ \A i \in 1..Len(p) :
                p[i] = IF i <= Len(inbox[e]) THEN inbox[e][i]
                       ELSE u(e)[i - Len(inbox[e])]
      BY <3>1
    <3>7. \A i \in 1..Len(p) :
             p[i].type = "ack" => p[i].writeId \in 1..applied'[e]
      BY <3>1, <3>2, <3>5, <3>6
    <3> HIDE DEF p
    <3>a. p \in Seq(Messages) /\ a(e) \in Seq(Messages)
      BY <3>1, <3>6
    <3>8. /\ q \in Seq(Messages)
          /\ Len(q) = Len(p) + Len(a(e))
          /\ \A i \in 1..Len(q) :
                q[i] = IF i <= Len(p) THEN p[i] ELSE a(e)[i - Len(p)]
      BY <3>a
    <3> HIDE DEF q
    <3>9. \A i \in 1..Len(q) :
             q[i].type = "ack" => q[i].writeId \in 1..applied'[e]
      <4> SUFFICES ASSUME NEW i \in 1..Len(q), q[i].type = "ack"
                   PROVE  q[i].writeId \in 1..applied'[e]
        OBVIOUS
      <4>1. Len(p) \in Nat /\ Len(a(e)) \in Nat
        BY <3>a
      <4>2. CASE i <= Len(p)
        BY <3>7, <3>8, <4>1, <4>2
      <4>3. CASE i > Len(p)
        <5>1. i - Len(p) \in 1..Len(a(e)) /\ q[i] = a(e)[i - Len(p)]
          BY <3>8, <4>1, <4>3
        <5>2. e = d /\ q[i].writeId = applied[d] + 1
          BY <3>3, <5>1
        <5> QED BY <3>4, <5>2
      <4> QED BY <3>8, <4>1, <4>2, <4>3
    <3>10. inbox'[e] = q
      BY <2>3 DEF p, q
    <3> QED BY <3>8, <3>9, <3>10
  <2>6. inbox' \in [Devices -> Seq(Messages)]
    BY <2>3, <2>5
  <2>7. server' \in Trees
    BY <1>0, <1>6, <2>1, SetFieldType DEF serverApply, TypeOK
  <2> HIDE DEF u, a, w
  <2>8. TypeOK'
    BY <1>0, <1>6, <2>4, <2>6, <2>7 DEF serverApply, TypeOK
  <2>9. WriteIdsOK'
    <3>1. ASSUME NEW e \in Devices
          PROVE  /\ acked'[e] <= applied'[e] /\ applied'[e] <= Len(userWrites'[e])
                 /\ acking'[e] => 1 <= acked'[e]
      <4>1. acked[e] \in Nat /\ applied[e] \in Nat /\ userWrites[e] \in Seq(Writes)
        BY <1>0 DEF TypeOK
      <4>2. applied'[e] = IF e = d THEN applied[e] + 1 ELSE applied[e]
        BY <1>0, <2>4 DEF TypeOK
      <4>3. e = d => applied[e] < Len(userWrites[e])
        BY <1>6 DEF serverApply
      <4>4. /\ acked[e] <= applied[e] /\ applied[e] <= Len(userWrites[e])
            /\ acking[e] => 1 <= acked[e]
        BY <1>0 DEF WriteIdsOK
      <4>5. UNCHANGED <<acked, acking, userWrites>>
        BY <1>6 DEF serverApply
      <4> QED BY <4>1, <4>2, <4>3, <4>4, <4>5
    <3> QED BY <2>5, <3>1 DEF WriteIdsOK
  <2> QED BY <2>8, <2>9 DEF TypeInv
<1>7. ASSUME NEW d \in Devices, reconnect(d) PROVE TypeInv'
  <2>1. (IF observing[d] THEN <<Snapshot(server)>> ELSE <<>>) \in Seq(Messages)
    BY <1>0, MessageTypes DEF TypeOK
  <2>2. TypeOK'
    BY <1>0, <1>7, <2>1 DEF reconnect, TypeOK
  <2>3. WriteIdsOK'
    BY <1>0, <1>7 DEF reconnect, TypeOK, WriteIdsOK, Snapshot
  <2> QED BY <2>2, <2>3 DEF TypeInv
<1>8. ASSUME NEW d \in Devices, crash(d) PROVE TypeInv'
  <2>1. TypeOK'
    BY <1>0, <1>8 DEF crash, TypeOK
  <2>2. WriteIdsOK'
    BY <1>0, <1>8 DEF crash, TypeOK, WriteIdsOK
  <2> QED BY <2>1, <2>2 DEF TypeInv
<1>9. ASSUME NEW d \in Devices, restart(d) PROVE TypeInv'
  <2>1. TypeOK'
    BY <1>0, <1>9 DEF restart, TypeOK
  <2> QED BY <1>0, <1>9, <2>1, WriteIdsUnchanged DEF restart, TypeInv
<1>11. ASSUME NEW d \in Devices, applyUserWrite(d) PROVE TypeInv'
  <2>1. userWrites[d][acked[d]] \in Writes
    BY <1>0, <1>11 DEF applyUserWrite, TypeOK, WriteIdsOK
  <2>2. SetField(cache[d], userWrites[d][acked[d]]) \in Trees
    BY <1>0, <2>1, SetFieldType DEF TypeOK
  <2>3. TypeOK'
    BY <1>0, <1>11, <2>2, ZenonT(30) DEF applyUserWrite, TypeOK
  <2>4. WriteIdsOK'
    BY <1>0, <1>11 DEF applyUserWrite, TypeOK, WriteIdsOK
  <2> QED BY <2>3, <2>4 DEF TypeInv
<1>10. CASE UNCHANGED vars
  <2>1. TypeOK'
    BY <1>0, <1>10 DEF vars, TypeOK
  <2> QED BY <1>0, <1>10, <2>1, WriteIdsUnchanged DEF vars, TypeInv
<1> QED BY <1>1, <1>2, <1>3, <1>4, <1>5, <1>6, <1>7, <1>8, <1>9, <1>10, <1>11
        DEF Next, Client

\* The type invariant of the helper, the clients and the services.
THEOREM TypeCorrect == Spec => []TypeOK
<1>1. TypeInv => TypeOK
  BY DEF TypeInv
<1> QED BY <1>1, InitTypeInv, NextTypeInv, PTL DEF Spec

-----------------------------------------------------------------------------
(* The url is the last field                                               *)

Base == Fields \ {"url"}

\* Field f of record k is among the first i writes of device d on disk, or
\* among the first i that wait on its shared queue.
Logged(d, k, f, i) ==
    \E j \in 1..i : userWrites[d][j].key = k /\ userWrites[d][j].field = f
Queued(d, k, f, i) ==
    \E j \in 1..i : sharedQueue[d][j].key = k /\ sharedQueue[d][j].field = f

\* Every url was set after the other fields of its record, in every place it
\* can be on its way: not yet written (the upload runs), on the shared
\* queue, on disk, on the server.
UploadAfterFields ==
    \A n \in Detections : upload[n] \in {"put", "stored", "url"} =>
        \A f \in Base :
            \/ Logged(DeviceOf[n], KeyOf[n], f, Len(userWrites[DeviceOf[n]]))
            \/ Queued(DeviceOf[n], KeyOf[n], f, Len(sharedQueue[DeviceOf[n]]))

QueueOrdered ==
    \A d \in Devices : \A i \in 1..Len(sharedQueue[d]) :
        sharedQueue[d][i].field = "url" =>
            \A f \in Base :
                \/ Logged(d, sharedQueue[d][i].key, f, Len(userWrites[d]))
                \/ Queued(d, sharedQueue[d][i].key, f, i - 1)

LogOrdered ==
    \A d \in Devices : \A i \in 1..Len(userWrites[d]) :
        userWrites[d][i].field = "url" =>
            \A f \in Base : Logged(d, userWrites[d][i].key, f, i - 1)

AppliedIsStored ==
    \A d \in Devices : \A i \in 1..applied[d] :
        HasField(server, userWrites[d][i].key, userWrites[d][i].field)

OrderInv == /\ UploadAfterFields /\ QueueOrdered /\ LogOrdered
            /\ AppliedIsStored /\ ServerUrlImpliesComplete

LEMMA InitOrderInv == Init => OrderInv
<1> SUFFICES ASSUME Init PROVE OrderInv
  OBVIOUS
<1>1. UploadAfterFields
  BY DEF Init, UploadAfterFields
<1>2. ASSUME NEW d \in Devices
      PROVE  userWrites[d] = <<>> /\ sharedQueue[d] = <<>> /\ applied[d] = 0
  BY DEF Init
<1>3. QueueOrdered /\ LogOrdered /\ AppliedIsStored
  BY <1>2 DEF QueueOrdered, LogOrdered, AppliedIsStored
<1>4. ServerUrlImpliesComplete
  BY DEF Init, EmptyTree, ServerUrlImpliesComplete, HasField, Fields
<1> QED BY <1>1, <1>3, <1>4 DEF OrderInv

\* Setting a field removes none, and sets the one it names.
LEMMA SetFieldKeeps ==
    ASSUME NEW tree \in Trees, NEW w \in Writes
    PROVE  /\ HasField(SetField(tree, w), w.key, w.field)
           /\ \A k \in Keys, f \in Fields :
                HasField(tree, k, f) => HasField(SetField(tree, w), k, f)
           /\ \A k \in Keys, f \in Fields :
                HasField(SetField(tree, w), k, f)
                  => HasField(tree, k, f) \/ (k = w.key /\ f = w.field)
<1>1. w.key \in Keys /\ w.field \in Fields /\ w.from \in Detections
  BY DEF Writes
<1>2. w.from # NoDetection
  BY <1>1, ConstantsAssumption
<1>3. ASSUME NEW k \in Keys, NEW f \in Fields
      PROVE  SetField(tree, w)[k][f] = IF k = w.key /\ f = w.field THEN w.from
                                       ELSE tree[k][f]
  BY <1>1 DEF SetField, Trees
<1> QED BY <1>1, <1>2, <1>3 DEF HasField

\* The actions that leave the queues, the disk and the server alone.
LEMMA OrderUnchanged ==
    ASSUME OrderInv, UNCHANGED <<sharedQueue, userWrites, server>>,
           UploadAfterFields', AppliedIsStored'
    PROVE  OrderInv'
  BY DEF OrderInv, QueueOrdered, LogOrdered, Logged, Queued,
         ServerUrlImpliesComplete, HasField, Complete

\* A shared queue that only grows keeps what is queued.
QueueExtended(e) ==
    /\ sharedQueue[e] \in Seq(Writes) /\ sharedQueue'[e] \in Seq(Writes)
    /\ Len(sharedQueue[e]) <= Len(sharedQueue'[e])
    /\ \A i \in 1..Len(sharedQueue[e]) : sharedQueue'[e][i] = sharedQueue[e][i]

LEMMA ExtendedKeepsQueued ==
    ASSUME NEW e, QueueExtended(e), NEW k, NEW f,
           NEW i \in 0..Len(sharedQueue[e]), Queued(e, k, f, i)
    PROVE  /\ \E j \in 1..i : sharedQueue'[e][j].key = k
                                /\ sharedQueue'[e][j].field = f
           /\ \E j \in 1..Len(sharedQueue'[e]) : sharedQueue'[e][j].key = k
                                /\ sharedQueue'[e][j].field = f
<1>1. Len(sharedQueue[e]) \in Nat /\ Len(sharedQueue'[e]) \in Nat
  BY DEF QueueExtended
<1>2. PICK j \in 1..i : sharedQueue[e][j].key = k /\ sharedQueue[e][j].field = f
  BY DEF Queued
<1>3. j \in 1..Len(sharedQueue[e]) /\ j \in 1..Len(sharedQueue'[e])
  BY <1>1 DEF QueueExtended
<1>4. sharedQueue'[e][j] = sharedQueue[e][j]
  BY <1>3 DEF QueueExtended
<1> QED BY <1>2, <1>3, <1>4

\* Steps that at most add to the shared queues: it is enough to look at the
\* urls they add and at the uploads they start.
LEMMA QueueGrows ==
    ASSUME TypeOK, OrderInv, UNCHANGED <<userWrites, applied, server>>,
           \A e \in Devices : QueueExtended(e),
           \A e \in Devices : \A i \in 1..Len(sharedQueue'[e]) :
              i > Len(sharedQueue[e]) /\ sharedQueue'[e][i].field = "url" =>
                \A f \in Base :
                  \/ Logged(e, sharedQueue'[e][i].key, f, Len(userWrites[e]))
                  \/ Queued(e, sharedQueue'[e][i].key, f, Len(sharedQueue[e])),
           \A n \in Detections : upload'[n] \in {"put", "stored", "url"} =>
              \/ upload[n] \in {"put", "stored", "url"}
              \/ \A f \in Base :
                   \E j \in 1..Len(sharedQueue'[DeviceOf[n]]) :
                     /\ sharedQueue'[DeviceOf[n]][j].key = KeyOf[n]
                     /\ sharedQueue'[DeviceOf[n]][j].field = f
    PROVE  OrderInv'
<1>1. ASSUME NEW e, NEW k, NEW f, NEW i
      PROVE  Logged(e, k, f, i)' <=> Logged(e, k, f, i)
  BY DEF Logged
<1>2. UploadAfterFields'
  <2> SUFFICES ASSUME NEW n \in Detections,
                      upload'[n] \in {"put", "stored", "url"}, NEW f \in Base
               PROVE  \/ Logged(DeviceOf[n], KeyOf[n], f,
                                Len(userWrites[DeviceOf[n]]))
                      \/ \E j \in 1..Len(sharedQueue'[DeviceOf[n]]) :
                           /\ sharedQueue'[DeviceOf[n]][j].key = KeyOf[n]
                           /\ sharedQueue'[DeviceOf[n]][j].field = f
    BY <1>1 DEF UploadAfterFields, Queued
  <2>1. DeviceOf[n] \in Devices
    BY ConstantsAssumption
  <2>2. CASE upload[n] \in {"put", "stored", "url"}
    <3>1. CASE Queued(DeviceOf[n], KeyOf[n], f, Len(sharedQueue[DeviceOf[n]]))
      <4>1. QueueExtended(DeviceOf[n])
        BY <2>1
      <4>2. Len(sharedQueue[DeviceOf[n]]) \in 0..Len(sharedQueue[DeviceOf[n]])
        BY <4>1 DEF QueueExtended
      <4> QED BY <3>1, <4>1, <4>2, ExtendedKeepsQueued
    <3>2. CASE Logged(DeviceOf[n], KeyOf[n], f, Len(userWrites[DeviceOf[n]]))
      BY <3>2
    <3> QED BY <2>2, <3>1, <3>2 DEF OrderInv, UploadAfterFields
  <2>3. CASE upload[n] \notin {"put", "stored", "url"}
    BY <2>3
  <2> QED BY <2>2, <2>3
<1>3. QueueOrdered'
  <2> SUFFICES ASSUME NEW e \in Devices, NEW i \in 1..Len(sharedQueue'[e]),
                      sharedQueue'[e][i].field = "url", NEW f \in Base
               PROVE  \/ Logged(e, sharedQueue'[e][i].key, f, Len(userWrites[e]))
                      \/ \E j \in 1..(i - 1) :
                           /\ sharedQueue'[e][j].key = sharedQueue'[e][i].key
                           /\ sharedQueue'[e][j].field = f
    BY <1>1 DEF QueueOrdered, Queued
  <2>1. QueueExtended(e) /\ Len(sharedQueue[e]) \in Nat
    BY DEF QueueExtended
  <2>2. CASE i > Len(sharedQueue[e])
    <3>1. CASE Queued(e, sharedQueue'[e][i].key, f, Len(sharedQueue[e]))
      <4>1. PICK j \in 1..Len(sharedQueue[e]) :
               /\ sharedQueue'[e][j].key = sharedQueue'[e][i].key
               /\ sharedQueue'[e][j].field = f
        BY <2>1, <3>1, ExtendedKeepsQueued, SMTT(30)
      <4> QED BY <2>1, <2>2, <4>1
    <3> QED BY <2>2, <3>1
  <2>3. CASE i <= Len(sharedQueue[e])
    <3>1. i \in 1..Len(sharedQueue[e]) /\ sharedQueue'[e][i] = sharedQueue[e][i]
      BY <2>1, <2>3 DEF QueueExtended
    <3>2. CASE Queued(e, sharedQueue[e][i].key, f, i - 1)
      <4>1. i - 1 \in 0..Len(sharedQueue[e])
        BY <2>1, <3>1
      <4> QED BY <2>1, <3>1, <3>2, <4>1, ExtendedKeepsQueued, SMTT(30)
    <3> QED BY <3>1, <3>2 DEF OrderInv, QueueOrdered
  <2> QED BY <2>1, <2>2, <2>3
<1>4. LogOrdered' /\ AppliedIsStored' /\ ServerUrlImpliesComplete'
  BY DEF OrderInv, LogOrdered, Logged, AppliedIsStored,
         ServerUrlImpliesComplete, HasField, Complete
<1> QED BY <1>2, <1>3, <1>4 DEF OrderInv

LEMMA NextOrderInv == TypeInv /\ OrderInv /\ [Next]_vars => OrderInv'
<1> SUFFICES ASSUME TypeInv, OrderInv, [Next]_vars PROVE OrderInv'
  OBVIOUS
<1> USE DEF diskVars, netVars
<1>0. TypeOK /\ WriteIdsOK
  BY DEF TypeInv
<1>1. ASSUME NEW n \in Detections, addDetection(n) PROVE OrderInv'
  <2> DEFINE three == <<WriteOf(n, "millis"), WriteOf(n, "score"),
                        WriteOf(n, "school")>>
             d == DeviceOf[n]
             old == sharedQueue[d]
             new == old \o three
  <2>1. d \in Devices /\ old \in Seq(Writes) /\ three \in Seq(Writes)
    BY <1>0, ConstantsAssumption, WriteOfType DEF TypeOK, Fields
  <2>2. Len(three) = 3 /\ three[1] = WriteOf(n, "millis")
          /\ three[2] = WriteOf(n, "score") /\ three[3] = WriteOf(n, "school")
    OBVIOUS
  <2> HIDE DEF three
  <2>3. /\ new \in Seq(Writes) /\ Len(new) = Len(old) + Len(three)
        /\ \A i \in 1..Len(new) :
             new[i] = IF i <= Len(old) THEN old[i] ELSE three[i - Len(old)]
    BY <2>1
  <2>4. sharedQueue' = [sharedQueue EXCEPT ![d] = new]
    BY <1>1 DEF addDetection, three
  <2>5. /\ UNCHANGED <<userWrites, applied, server>>
        /\ upload' = [upload EXCEPT ![n] = "put"]
    BY <1>1 DEF addDetection
  <2> HIDE DEF new
  <2>6. ASSUME NEW e \in Devices
        PROVE  /\ QueueExtended(e)
               /\ \A i \in 1..Len(sharedQueue'[e]) :
                    i > Len(sharedQueue[e]) => sharedQueue'[e][i].field # "url"
    <3>1. CASE e # d
      BY <1>0, <2>4, <3>1 DEF TypeOK, QueueExtended
    <3>2. CASE e = d
      <4>1. sharedQueue'[e] = new /\ sharedQueue[e] = old
        BY <1>0, <2>1, <2>4, <3>2 DEF TypeOK
      <4>2. Len(old) \in Nat /\ Len(new) = Len(old) + 3
        BY <2>1, <2>2, <2>3
      <4>3. \A i \in 1..3 : three[i].field # "url"
        BY <2>2 DEF WriteOf
      <4>4. ASSUME NEW i \in 1..Len(new), i > Len(old)
            PROVE  new[i].field # "url"
        <5> HIDE DEF old
        <5>1. i - Len(old) \in 1..3 /\ ~(i <= Len(old))
          BY <4>2, <4>4
        <5>2. new[i] = IF i <= Len(old) THEN old[i] ELSE three[i - Len(old)]
          BY <2>3
        <5>3. new[i] = three[i - Len(old)]
          BY <5>1, <5>2
        <5> QED BY <4>3, <5>1, <5>3
      <4> HIDE DEF old
      <4> QED BY <2>1, <2>3, <4>1, <4>2, <4>4 DEF QueueExtended
    <3> QED BY <3>1, <3>2
  <2>7. ASSUME NEW f \in Base
        PROVE  \E j \in 1..Len(sharedQueue'[d]) :
                 sharedQueue'[d][j].key = KeyOf[n] /\ sharedQueue'[d][j].field = f
    <3>1. \E j \in 1..3 : three[j].key = KeyOf[n] /\ three[j].field = f
      BY <2>2 DEF Base, Fields, WriteOf
    <3>2. PICK j \in 1..3 : three[j].key = KeyOf[n] /\ three[j].field = f
      BY <3>1
    <3>3. sharedQueue'[d] = new
      BY <1>0, <2>1, <2>4 DEF TypeOK
    <3>4. Len(old) \in Nat /\ Len(new) = Len(old) + 3
      BY <2>1, <2>2, <2>3
    <3> HIDE DEF old
    <3>5. Len(old) + j \in 1..Len(new) /\ ~(Len(old) + j <= Len(old))
            /\ Len(old) + j - Len(old) = j
      BY <3>4
    <3>6. new[Len(old) + j] = three[j]
      BY <2>3, <3>5
    <3> QED BY <3>2, <3>3, <3>5, <3>6
  <2>8. \A m \in Detections : upload'[m] \in {"put", "stored", "url"} =>
           \/ upload[m] \in {"put", "stored", "url"}
           \/ m = n
    BY <1>0, <2>5 DEF TypeOK
  <2> QED BY <1>0, <2>5, <2>6, <2>7, <2>8, QueueGrows
<1>2. ASSUME NEW n \in Detections, downloadURLCompleted(n) PROVE OrderInv'
  <2> DEFINE d == DeviceOf[n]
             w == WriteOf(n, "url")
  <2>1. d \in Devices /\ w \in Writes /\ w.key = KeyOf[n]
    BY ConstantsAssumption, WriteOfType DEF Fields, WriteOf
  <2>2. sharedQueue' = [sharedQueue EXCEPT ![d] = Append(sharedQueue[d], w)]
    BY <1>2 DEF downloadURLCompleted
  <2>3. /\ UNCHANGED <<userWrites, applied, server>>
        /\ upload' = [upload EXCEPT ![n] = "done"] /\ upload[n] = "url"
    BY <1>2 DEF downloadURLCompleted
  <2>4. \A f \in Base : \/ Logged(d, w.key, f, Len(userWrites[d]))
                        \/ Queued(d, w.key, f, Len(sharedQueue[d]))
    BY <2>1, <2>3 DEF OrderInv, UploadAfterFields
  <2> HIDE DEF w
  <2>5. ASSUME NEW e \in Devices
        PROVE  /\ QueueExtended(e)
               /\ \A i \in 1..Len(sharedQueue'[e]) :
                    i > Len(sharedQueue[e]) => e = d /\ sharedQueue'[e][i] = w
    <3>1. CASE e # d
      BY <1>0, <2>2, <3>1 DEF TypeOK, QueueExtended
    <3>2. CASE e = d
      <4>1. sharedQueue'[e] = Append(sharedQueue[e], w)
              /\ sharedQueue[e] \in Seq(Writes)
        BY <1>0, <2>1, <2>2, <3>2 DEF TypeOK
      <4> QED BY <2>1, <3>2, <4>1 DEF QueueExtended
    <3> QED BY <3>1, <3>2
  <2>6. \A m \in Detections : upload'[m] \in {"put", "stored", "url"} =>
           upload[m] \in {"put", "stored", "url"}
    BY <1>0, <2>3 DEF TypeOK
  <2> QED BY <1>0, <2>3, <2>4, <2>5, <2>6, QueueGrows
<1>3. ASSUME UNCHANGED <<sharedQueue, userWrites, applied, server>>,
             \A n \in Detections : upload'[n] \in {"put", "stored", "url"} =>
                upload[n] \in {"put", "stored", "url"}
      PROVE  OrderInv'
  <2>1. ASSUME NEW e \in Devices
        PROVE  /\ QueueExtended(e)
               /\ \A i \in 1..Len(sharedQueue'[e]) : ~(i > Len(sharedQueue[e]))
    <3>1. sharedQueue[e] \in Seq(Writes) /\ sharedQueue'[e] = sharedQueue[e]
      BY <1>0, <1>3 DEF TypeOK
    <3> QED BY <3>1 DEF QueueExtended
  <2> QED BY <1>0, <1>3, <2>1, QueueGrows
<1>4. ASSUME NEW n \in Detections,
             storageCommit(n) \/ putDataCompleted(n) \/ completedWithError(n)
      PROVE  OrderInv'
  BY <1>0, <1>3, <1>4
     DEF storageCommit, putDataCompleted, completedWithError, TypeOK
<1>5. ASSUME NEW d \in Devices, \/ observe(d) \/ receive(d) \/ applyUserWrite(d)
                                \/ restart(d)
      PROVE  OrderInv'
  BY <1>3, <1>5 DEF observe, receive, applyUserWrite, restart
<1>6. CASE UNCHANGED vars
  BY <1>3, <1>6 DEF vars
<1>7. ASSUME NEW d \in Devices, reconnect(d) PROVE OrderInv'
  <2>1. UNCHANGED <<sharedQueue, userWrites, server, upload>>
    BY <1>7 DEF reconnect
  <2>2. \A e \in Devices : applied'[e] \in Nat /\ applied[e] \in Nat
                             /\ applied'[e] <= applied[e]
    BY <1>0, <1>7 DEF reconnect, TypeOK, WriteIdsOK
  <2>3. AppliedIsStored'
    BY <2>1, <2>2 DEF OrderInv, AppliedIsStored, HasField
  <2>4. UploadAfterFields'
    BY <2>1 DEF OrderInv, UploadAfterFields, Logged, Queued
  <2> QED BY <2>1, <2>3, <2>4, OrderUnchanged
<1>8. ASSUME NEW d \in Devices, crash(d) PROVE OrderInv'
  <2>1. /\ UNCHANGED <<userWrites, server>>
        /\ sharedQueue' = [sharedQueue EXCEPT ![d] = <<>>]
        /\ applied' = [applied EXCEPT ![d] = acked[d]]
    BY <1>8 DEF crash
  <2>2. \A e \in Devices : applied'[e] \in Nat /\ applied[e] \in Nat
                             /\ applied'[e] <= applied[e]
    BY <1>0, <2>1 DEF TypeOK, WriteIdsOK
  <2>3. AppliedIsStored'
    BY <2>1, <2>2 DEF OrderInv, AppliedIsStored, HasField
  <2>4. \A n \in Detections : upload'[n] \in {"put", "stored", "url"}
           => DeviceOf[n] # d /\ upload[n] \in {"put", "stored", "url"}
    BY <1>8 DEF crash
  <2>5. \A e \in Devices : e # d => sharedQueue'[e] = sharedQueue[e]
    BY <1>0, <2>1 DEF TypeOK
  <2>6. UploadAfterFields'
    BY <2>1, <2>4, <2>5, ConstantsAssumption
       DEF OrderInv, UploadAfterFields, Logged, Queued
  <2>7. QueueOrdered'
    <3>1. sharedQueue'[d] = <<>>
      BY <1>0, <2>1 DEF TypeOK
    <3>2. ASSUME NEW i \in 1..Len(sharedQueue'[d]) PROVE FALSE
      BY <3>1
    <3> QED BY <2>1, <2>5, <3>2, SMTT(30) DEF OrderInv, QueueOrdered, Logged, Queued
  <2>8. LogOrdered' /\ ServerUrlImpliesComplete'
    BY <2>1 DEF OrderInv, LogOrdered, Logged, ServerUrlImpliesComplete,
                HasField, Complete
  <2> QED BY <2>3, <2>6, <2>7, <2>8 DEF OrderInv
<1>9. ASSUME NEW d \in Devices, serverApply(d) PROVE OrderInv'
  <2> DEFINE i == applied[d] + 1
             w == userWrites[d][i]
  <2>1. w \in Writes /\ i \in 1..Len(userWrites[d]) /\ applied[d] \in Nat
    BY <1>0, <1>9 DEF serverApply, TypeOK
  <2>2. /\ UNCHANGED <<sharedQueue, userWrites, upload>>
        /\ server' = SetField(server, w)
        /\ applied' = [applied EXCEPT ![d] = i]
    BY <1>9 DEF serverApply
  <2>3. server \in Trees /\ \A k \in Keys, f \in Fields :
           /\ HasField(server, k, f) => HasField(server', k, f)
           /\ HasField(server', k, f) => \/ HasField(server, k, f)
                                         \/ k = w.key /\ f = w.field
    BY <1>0, <2>1, <2>2, SetFieldKeeps DEF TypeOK
  <2>4. HasField(server', w.key, w.field)
    BY <1>0, <2>1, <2>2, SetFieldKeeps DEF TypeOK
  <2>5. AppliedIsStored'
    <3> SUFFICES ASSUME NEW e \in Devices, NEW j \in 1..applied'[e]
                 PROVE  HasField(server', userWrites[e][j].key,
                                 userWrites[e][j].field)
      BY <2>2 DEF AppliedIsStored, HasField
    <3>1. CASE e = d /\ j = i
      BY <2>4, <3>1
    <3>2. CASE ~(e = d /\ j = i)
      <4>1. j \in 1..applied[e] /\ applied[e] <= Len(userWrites[e])
        BY <1>0, <2>1, <2>2, <3>2 DEF TypeOK, WriteIdsOK
      <4>2. userWrites[e][j] \in Writes
        BY <1>0, <4>1 DEF TypeOK
      <4>3. HasField(server, userWrites[e][j].key, userWrites[e][j].field)
        BY <4>1 DEF OrderInv, AppliedIsStored
      <4> QED BY <2>3, <4>2, <4>3 DEF Writes
    <3> QED BY <3>1, <3>2
  <2>6. ServerUrlImpliesComplete'
    <3> SUFFICES ASSUME NEW k \in Keys, HasField(server', k, "url"),
                        NEW f \in Base
                 PROVE  HasField(server', k, f)
      BY DEF ServerUrlImpliesComplete, Complete, Base, HasField
    <3>1. f \in Fields /\ "url" \in Fields
      BY DEF Base, Fields
    <3>2. CASE HasField(server, k, "url")
      <4>1. HasField(server, k, f)
        BY <3>2 DEF OrderInv, ServerUrlImpliesComplete, Complete, Base
      <4> QED BY <2>3, <3>1, <4>1
    <3>3. CASE k = w.key /\ w.field = "url"
      <4>1. Logged(d, k, f, i - 1)
        BY <2>1, <3>3 DEF OrderInv, LogOrdered
      <4>2. PICK j \in 1..(i - 1) : userWrites[d][j].key = k
                                      /\ userWrites[d][j].field = f
        BY <4>1 DEF Logged
      <4>3. j \in 1..applied[d]
        BY <2>1
      <4>4. HasField(server, k, f)
        BY <4>2, <4>3 DEF OrderInv, AppliedIsStored
      <4> QED BY <2>3, <3>1, <4>4
    <3> QED BY <2>3, <3>1, <3>2, <3>3
  <2>7. UploadAfterFields' /\ QueueOrdered' /\ LogOrdered'
    BY <2>2 DEF OrderInv, UploadAfterFields, QueueOrdered, LogOrdered, Logged,
                Queued
  <2> QED BY <2>5, <2>6, <2>7 DEF OrderInv
<1>10. ASSUME NEW d \in Devices, set(d) PROVE OrderInv'
  <2> DEFINE q == sharedQueue[d]
             u == userWrites[d]
             N == Len(userWrites[d])
  <2>1. /\ q \in Seq(Writes) /\ q # <<>> /\ u \in Seq(Writes)
        /\ Head(q) = q[1] /\ Len(q) \in Nat /\ 1 <= Len(q) /\ N \in Nat
    BY <1>0, <1>10 DEF set, TypeOK
  <2>2. /\ Len(Tail(q)) = Len(q) - 1
        /\ \A i \in 1..(Len(q) - 1) : Tail(q)[i] = q[i + 1]
    BY <2>1
  <2>3. /\ Len(Append(u, q[1])) = N + 1
        /\ Append(u, q[1])[N + 1] = q[1]
        /\ \A i \in 1..N : Append(u, q[1])[i] = u[i]
    BY <2>1
  <2>4. /\ UNCHANGED <<server, upload, applied>>
        /\ sharedQueue' = [sharedQueue EXCEPT ![d] = Tail(q)]
        /\ userWrites' = [userWrites EXCEPT ![d] = Append(u, q[1])]
    BY <1>10, <2>1 DEF set
  <2>5. /\ sharedQueue'[d] = Tail(q) /\ userWrites'[d] = Append(u, q[1])
        /\ \A e \in Devices : e # d => /\ sharedQueue'[e] = sharedQueue[e]
                                       /\ userWrites'[e] = userWrites[e]
    BY <1>0, <2>4 DEF TypeOK
  <2>6. \A e \in Devices : /\ Len(userWrites[e]) \in Nat
                           /\ Len(userWrites'[e]) \in Nat
                           /\ Len(userWrites[e]) <= Len(userWrites'[e])
                           /\ \A i \in 1..Len(userWrites[e]) :
                                userWrites'[e][i] = userWrites[e][i]
    <3> SUFFICES ASSUME NEW e \in Devices
                 PROVE  /\ Len(userWrites[e]) \in Nat
                        /\ Len(userWrites'[e]) \in Nat
                        /\ Len(userWrites[e]) <= Len(userWrites'[e])
                        /\ \A i \in 1..Len(userWrites[e]) :
                             userWrites'[e][i] = userWrites[e][i]
      OBVIOUS
    <3>1. userWrites[e] \in Seq(Writes)
      BY <1>0 DEF TypeOK
    <3>2. CASE e = d
      BY <2>1, <2>3, <2>5, <3>2
    <3>3. CASE e # d
      BY <2>5, <3>1, <3>3
    <3> QED BY <3>2, <3>3
  \* What is on disk stays there; what leaves the queue is on disk.
  <2>7. ASSUME NEW e \in Devices, NEW k, NEW f,
               NEW i \in 0..Len(userWrites[e]), Logged(e, k, f, i)
        PROVE  /\ \E j \in 1..i : userWrites'[e][j].key = k
                                    /\ userWrites'[e][j].field = f
               /\ \E j \in 1..Len(userWrites'[e]) :
                     userWrites'[e][j].key = k /\ userWrites'[e][j].field = f
    <3>1. PICK j \in 1..i : userWrites[e][j].key = k /\ userWrites[e][j].field = f
      BY <2>7 DEF Logged
    <3>2. j \in 1..Len(userWrites[e]) /\ j \in 1..Len(userWrites'[e])
      BY <2>6
    <3> QED BY <2>6, <3>1, <3>2
  <2>8. ASSUME NEW k, NEW f, NEW i \in 0..Len(q), Queued(d, k, f, i)
        PROVE  \/ \E j \in 1..Len(userWrites'[d]) :
                     userWrites'[d][j].key = k /\ userWrites'[d][j].field = f
               \/ \E j \in 1..(i - 1) :
                     sharedQueue'[d][j].key = k /\ sharedQueue'[d][j].field = f
    <3>1. PICK j \in 1..i : q[j].key = k /\ q[j].field = f
      BY <2>8 DEF Queued
    <3>2. CASE j = 1
      <4>1. N + 1 \in 1..Len(userWrites'[d]) /\ userWrites'[d][N + 1] = q[1]
        BY <2>1, <2>3, <2>5
      <4> QED BY <3>1, <3>2, <4>1
    <3>3. CASE j # 1
      <4>1. j - 1 \in 1..(i - 1) /\ j - 1 \in 1..(Len(q) - 1) /\ j - 1 + 1 = j
        BY <2>1, <3>3
      <4>2. sharedQueue'[d][j - 1] = q[j]
        BY <2>2, <2>5, <4>1
      <4> QED BY <3>1, <4>1, <4>2
    <3> QED BY <3>2, <3>3
  <2>9. UploadAfterFields'
    <3> SUFFICES ASSUME NEW n \in Detections,
                        upload[n] \in {"put", "stored", "url"}, NEW f \in Base
                 PROVE  \/ \E j \in 1..Len(userWrites'[DeviceOf[n]]) :
                             /\ userWrites'[DeviceOf[n]][j].key = KeyOf[n]
                             /\ userWrites'[DeviceOf[n]][j].field = f
                        \/ \E j \in 1..Len(sharedQueue'[DeviceOf[n]]) :
                             /\ sharedQueue'[DeviceOf[n]][j].key = KeyOf[n]
                             /\ sharedQueue'[DeviceOf[n]][j].field = f
      BY <2>4 DEF UploadAfterFields, Logged, Queued
    <3> DEFINE e == DeviceOf[n]
    <3>1. e \in Devices
      BY ConstantsAssumption
    <3>2. CASE Logged(e, KeyOf[n], f, Len(userWrites[e]))
      <4>1. Len(userWrites[e]) \in 0..Len(userWrites[e])
        BY <2>6, <3>1
      <4> QED BY <2>7, <3>1, <3>2, <4>1
    <3>3. CASE Queued(e, KeyOf[n], f, Len(sharedQueue[e]))
      <4>1. CASE e = d
        <5>1. Len(q) \in 0..Len(q) /\ Len(sharedQueue'[d]) = Len(q) - 1
          BY <2>1, <2>2, <2>5
        <5>2. Queued(d, KeyOf[n], f, Len(q))
          BY <3>3, <4>1
        <5> QED BY <2>8, <4>1, <5>1, <5>2
      <4>2. CASE e # d
        BY <2>5, <3>1, <3>3, <4>2 DEF Queued
      <4> QED BY <4>1, <4>2
    <3> QED BY <3>2, <3>3 DEF OrderInv, UploadAfterFields
  <2>10. QueueOrdered'
    <3> SUFFICES ASSUME NEW e \in Devices, NEW i \in 1..Len(sharedQueue'[e]),
                        sharedQueue'[e][i].field = "url", NEW f \in Base
                 PROVE  \/ \E j \in 1..Len(userWrites'[e]) :
                             /\ userWrites'[e][j].key = sharedQueue'[e][i].key
                             /\ userWrites'[e][j].field = f
                        \/ \E j \in 1..(i - 1) :
                             /\ sharedQueue'[e][j].key = sharedQueue'[e][i].key
                             /\ sharedQueue'[e][j].field = f
      BY DEF QueueOrdered, Logged, Queued
    <3>1. CASE e # d
      BY <2>5, <3>1, SMTT(30) DEF OrderInv, QueueOrdered, Logged, Queued
    <3>2. CASE e = d
      <4>1. i + 1 \in 1..Len(q) /\ sharedQueue'[e][i] = q[i + 1]
        <5>1. sharedQueue'[e] = Tail(q) /\ i \in 1..(Len(q) - 1)
          BY <2>2, <2>5, <3>2
        <5> QED BY <2>1, <2>2, <5>1
      <4>2. \/ Logged(d, q[i + 1].key, f, N)
            \/ Queued(d, q[i + 1].key, f, i + 1 - 1)
        BY <3>2, <4>1 DEF OrderInv, QueueOrdered
      <4>3. CASE Logged(d, q[i + 1].key, f, N)
        <5>1. N \in 0..N
          BY <2>1
        <5> QED BY <2>7, <3>2, <4>1, <4>3, <5>1, SMTT(30)
      <4>4. CASE Queued(d, q[i + 1].key, f, i)
        <5>1. i \in 0..Len(q)
          BY <2>1, <4>1
        <5> QED BY <2>8, <3>2, <4>1, <4>4, <5>1
      <4>5. i + 1 - 1 = i
        BY <2>1, <4>1
      <4> QED BY <4>2, <4>3, <4>4, <4>5
    <3> QED BY <3>1, <3>2
  <2>11. LogOrdered'
    <3> SUFFICES ASSUME NEW e \in Devices, NEW i \in 1..Len(userWrites'[e]),
                        userWrites'[e][i].field = "url", NEW f \in Base
                 PROVE  \E j \in 1..(i - 1) :
                             /\ userWrites'[e][j].key = userWrites'[e][i].key
                             /\ userWrites'[e][j].field = f
      BY DEF LogOrdered, Logged
    <3>1. CASE i <= Len(userWrites[e])
      <4>1. i \in 1..Len(userWrites[e]) /\ userWrites'[e][i] = userWrites[e][i]
              /\ i - 1 \in 0..Len(userWrites[e])
        BY <2>6, <3>1
      <4>2. Logged(e, userWrites[e][i].key, f, i - 1)
        BY <4>1 DEF OrderInv, LogOrdered
      <4> QED BY <2>7, <4>1, <4>2
    <3>2. CASE i > Len(userWrites[e])
      <4>1. e = d /\ i = N + 1
        BY <2>1, <2>3, <2>5, <2>6, <3>2
      <4>2. userWrites'[e][i] = q[1] /\ i - 1 = N
        BY <2>1, <2>3, <2>5, <4>1
      <4>3. 1 \in 1..Len(q)
        BY <2>1
      <4>4. Logged(d, q[1].key, f, N) \/ Queued(d, q[1].key, f, 1 - 1)
        BY <4>2, <4>3 DEF OrderInv, QueueOrdered
      <4>5. ~Queued(d, q[1].key, f, 1 - 1)
        BY DEF Queued
      <4>6. N \in 0..N
        BY <2>1
      <4> QED BY <2>7, <4>1, <4>2, <4>4, <4>5, <4>6, SMTT(30)
    <3> QED BY <2>6, <3>1, <3>2
  <2>12. AppliedIsStored'
    <3>1. ASSUME NEW e \in Devices, NEW i \in 1..applied[e]
          PROVE  i \in 1..Len(userWrites[e])
      BY <1>0, <2>6 DEF WriteIdsOK, TypeOK
    <3> QED BY <2>4, <2>6, <3>1, SMTT(30) DEF OrderInv, AppliedIsStored, HasField
  <2>13. ServerUrlImpliesComplete'
    BY <2>4 DEF OrderInv, ServerUrlImpliesComplete, HasField, Complete
  <2> QED BY <2>9, <2>10, <2>11, <2>12, <2>13 DEF OrderInv
<1> QED BY <1>1, <1>2, <1>4, <1>5, <1>6, <1>7, <1>8, <1>9, <1>10
        DEF Next, Client, Uploading

\* A record on the server that has its url has all its fields: for any number
\* of devices, shared logins and equal dates, crashes and reconnections.
THEOREM UrlIsLast == Spec => []ServerUrlImpliesComplete
<1>1. OrderInv => ServerUrlImpliesComplete
  BY DEF OrderInv
<1> QED BY <1>1, InitTypeInv, NextTypeInv, InitOrderInv, NextOrderInv, PTL
        DEF Spec
-----------------------------------------------------------------------------
(* What a client will know                                                 *)

UrlComplete(tree) == \A k \in Keys : HasField(tree, k, "url") => Complete(tree, k)

Covers(big, small) ==
    \A k \in Keys, f \in Fields : HasField(small, k, f) => HasField(big, k, f)

\* The cache of a listener after one more message.
Deliver(tree, m) ==
    IF m.type = "update" THEN SetField(tree, m.write)
    ELSE IF m.type = "snapshot" THEN m.tree ELSE tree

\* T[i] is what the cache will be after the first i messages of the inbox.
Path(T, tree, box) ==
    /\ T \in [0..Len(box) -> Trees]
    /\ T[0] = tree
    /\ \A i \in 1..Len(box) : T[i] = Deliver(T[i - 1], box[i])

\* No message takes a field away, and the server has all fields.
OnlyGrows(T, box, srv) ==
    /\ \A i \in 1..Len(box) : Covers(T[i], T[i - 1])
    /\ \A i \in 0..Len(box) : Covers(srv, T[i])

\* A listener ends up with the tree of the server, of which it has had or
\* will have the whole; a write has reached it before its acknowledgement.
\* Who does not listen is sent acknowledgements only.
Heard(T, box, srv, obs, ld, log) ==
    /\ obs => /\ T[Len(box)] = srv
              /\ ld \/ \E i \in 1..Len(box) : box[i].type = "snapshot"
              /\ \A i \in 1..Len(box) : box[i].type = "ack" =>
                   HasField(T[i], log[box[i].writeId].key,
                                  log[box[i].writeId].field)
    /\ ~obs => \A i \in 1..Len(box) : box[i].type = "ack" /\ T[i] = T[0]

\* Unless a process may die while it acknowledges a write: the cache holds
\* every write that left the disk, but for the one being acknowledged, and
\* no tree on the path has a url without the other fields.
NothingForgotten(T, box, obs, log, a, ing) ==
    CrashInAck \/
    /\ \A v \in 1..a : v # a \/ ~ing \/ obs =>
         HasField(T[0], log[v].key, log[v].field)
    /\ \A i \in 0..Len(box) : UrlComplete(T[i])

\* The acknowledgements under way are those of the writes applied and not
\* yet removed, in order.
AcksInOrder(box, a, app) ==
    /\ \A i \in 1..Len(box) : box[i].type = "ack" =>
         /\ box[i].writeId > a
         /\ \A j \in 1..(i - 1) : box[j].type = "ack" =>
              box[j].writeId < box[i].writeId
    /\ \A v \in (a + 1)..app :
         \E i \in 1..Len(box) : box[i].type = "ack" /\ box[i].writeId = v

\* The acknowledgements under way name writes the server has applied, ...
AcksKnown(box, app) ==
    \A i \in 1..Len(box) : box[i].type = "ack" => box[i].writeId \in 1..app

\* ... whose fields it has, ...
Stored(srv, log, app) ==
    \A v \in 1..app : HasField(srv, log[v].key, log[v].field)

\* ... and a url was written after the other fields of its record.
FieldsBefore(log, a) ==
    log[a].field = "url" => \A f \in Base : \E j \in 1..(a - 1) :
        log[j].key = log[a].key /\ log[j].field = f

\* What a message does to a client but for its cache.
Noted(m, ld, a, ld2, a2, ing2) ==
    /\ IF m.type = "ack" THEN a2 = m.writeId /\ ing2 ELSE a2 = a /\ ~ing2
    /\ ld2 <=> (ld \/ m.type = "snapshot")

\* What becomes of an inbox.
Sent(box, m) == Append(box, m)
Received(box) == Tail(box)
Answered(box, srv) == <<Snapshot(srv)>> \o box

PathInv(T, tree, box, srv, obs, ld, log, a, ing) ==
    /\ Path(T, tree, box)
    /\ OnlyGrows(T, box, srv)
    /\ Heard(T, box, srv, obs, ld, log)
    /\ NothingForgotten(T, box, obs, log, a, ing)

LEMMA DeliverType ==
    ASSUME NEW tree \in Trees, NEW m \in Messages
    PROVE  Deliver(tree, m) \in Trees
<1>1. CASE m.type = "update"
  BY <1>1, MessageTypes, SetFieldType DEF Deliver
<1>2. CASE m.type # "update"
  BY <1>2, MessageTypes DEF Deliver
<1> QED BY <1>1, <1>2

LEMMA SetFieldCovers ==
    ASSUME NEW tree \in Trees, NEW w \in Writes
    PROVE  /\ Covers(SetField(tree, w), tree)
           /\ HasField(SetField(tree, w), w.key, w.field)
           /\ \A big \in Trees :
                Covers(big, tree) /\ HasField(big, w.key, w.field)
                  => Covers(big, SetField(tree, w))
<1>1. w.key \in Keys /\ w.field \in Fields
  BY DEF Writes
<1> QED BY <1>1, SetFieldKeeps DEF Covers

\* The next acknowledgement is that of the next write.
LEMMA AckIsNext ==
    ASSUME NEW box \in Seq(Messages), box # <<>>, NEW a \in Nat, NEW app \in Nat,
           a <= app, AcksInOrder(box, a, app), AcksKnown(box, app),
           box[1].type = "ack"
    PROVE  box[1].writeId = a + 1
<1> DEFINE n == Len(box)
           a2 == box[1].writeId
<1>1. n \in Nat /\ n >= 1
  OBVIOUS
<1>2. 1 \in 1..n /\ a2 > a /\ a2 \in 1..app
  BY <1>1 DEF AcksInOrder, AcksKnown
<1> SUFFICES ASSUME a2 # a + 1 PROVE FALSE
  OBVIOUS
<1>3. a + 1 \in (a + 1)..app /\ a + 1 < a2
  BY <1>2
<1>4. PICK i \in 1..n : box[i].type = "ack" /\ box[i].writeId = a + 1
  BY <1>3 DEF AcksInOrder
<1>5. i = 1 \/ 1 \in 1..(i - 1)
  BY <1>1
<1>6. 1 \in 1..(i - 1) => box[1].writeId < box[i].writeId
  BY <1>2, <1>4 DEF AcksInOrder
<1> QED BY <1>2, <1>3, <1>4, <1>5, <1>6

\* The first message is received: the path goes on from the next tree.
LEMMA ReceiveFirst ==
    ASSUME NEW T, NEW tree \in Trees, NEW box \in Seq(Messages), box # <<>>,
           NEW srv \in Trees, NEW obs, NEW ld,
           NEW log \in Seq(Writes), NEW a \in Nat,
           NEW ld2, NEW a2 \in Nat, NEW ing2, NEW m, m = box[1],
           NEW app \in Nat, a <= app, app <= Len(log), AcksInOrder(box, a, app),
           AcksKnown(box, app),
           PathInv(T, tree, box, srv, obs, ld, log, a, FALSE),
           Noted(m, ld, a, ld2, a2, ing2)
    PROVE  /\ AcksInOrder(Received(box), a2, app)
           /\ Covers(Deliver(tree, m), tree)
           /\ \E S : PathInv(S, Deliver(tree, m), Received(box), srv, obs,
                             ld2, log, a2, ing2)
<1> DEFINE n == Len(box)
           S == [i \in 0..(n - 1) |-> T[i + 1]]
           rest == Received(box)
<1>0. /\ IF box[1].type = "ack" THEN a2 = box[1].writeId /\ ing2
                                ELSE a2 = a /\ ~ing2
      /\ ld2 <=> (ld \/ box[1].type = "snapshot")
  BY DEF Noted
<1>1. /\ n \in Nat /\ n >= 1 /\ Len(rest) = n - 1 /\ rest \in Seq(Messages)
      /\ \A i \in 1..(n - 1) : rest[i] = box[i + 1]
  BY DEF Received
<1>2. /\ T \in [0..n -> Trees] /\ T[0] = tree
      /\ \A i \in 1..n : T[i] = Deliver(T[i - 1], box[i])
  BY DEF PathInv, Path
<1>3. T[1] = Deliver(tree, box[1])
  BY <1>1, <1>2
<1>4. /\ S \in [0..(n - 1) -> Trees]
      /\ \A i \in 0..(n - 1) : S[i] = T[i + 1]
  BY <1>1, <1>2
<1> HIDE DEF S, rest, n
<1>5. Path(S, Deliver(tree, box[1]), rest)
  <2>1. S[0] = T[1]
    BY <1>1, <1>4
  <2>2. ASSUME NEW i \in 1..(n - 1) PROVE S[i] = Deliver(S[i - 1], rest[i])
    <3>1. i \in 0..(n - 1) /\ i - 1 \in 0..(n - 1) /\ i + 1 \in 1..n
            /\ i - 1 + 1 = i /\ i + 1 - 1 = i
      BY <1>1
    <3>2. S[i] = T[i + 1] /\ S[i - 1] = T[i] /\ rest[i] = box[i + 1]
      BY <1>1, <1>4, <3>1
    <3> QED BY <1>2, <3>1, <3>2
  <2> QED BY <1>1, <1>3, <1>4, <2>1, <2>2 DEF Path
<1>6. OnlyGrows(S, rest, srv)
  <2>1. ASSUME NEW i \in 1..(n - 1) PROVE Covers(S[i], S[i - 1])
    <3>1. i \in 0..(n - 1) /\ i - 1 \in 0..(n - 1) /\ i + 1 \in 1..n
            /\ i - 1 + 1 = i /\ i + 1 - 1 = i
      BY <1>1
    <3>2. S[i] = T[i + 1] /\ S[i - 1] = T[i]
      BY <1>4, <3>1
    <3> QED BY <3>1, <3>2 DEF PathInv, OnlyGrows, n
  <2>2. ASSUME NEW i \in 0..(n - 1) PROVE Covers(srv, S[i])
    <3>1. i + 1 \in 0..n /\ S[i] = T[i + 1]
      BY <1>1, <1>4
    <3> QED BY <3>1 DEF PathInv, OnlyGrows, n
  <2> QED BY <1>1, <2>1, <2>2 DEF OnlyGrows
<1>7. Heard(S, rest, srv, obs, ld2, log)
  <2>1. CASE obs
    <3>1. S[n - 1] = srv
      <4>1. n - 1 \in 0..(n - 1) /\ n - 1 + 1 = n
        BY <1>1
      <4> QED BY <1>4, <2>1, <4>1 DEF PathInv, Heard, n
    <3>2. ld2 \/ \E i \in 1..(n - 1) : rest[i].type = "snapshot"
      <4>1. CASE ld \/ box[1].type = "snapshot"
        BY <1>0, <4>1
      <4>2. CASE ~ld /\ box[1].type # "snapshot"
        <5>1. PICK i \in 1..n : box[i].type = "snapshot"
          BY <2>1, <4>2 DEF PathInv, Heard, n
        <5>2. i # 1 /\ i - 1 \in 1..(n - 1) /\ i - 1 + 1 = i
          BY <1>1, <4>2, <5>1, SMTT(30)
        <5> QED BY <1>1, <5>1, <5>2
      <4> QED BY <4>1, <4>2
    <3>3. ASSUME NEW i \in 1..(n - 1), rest[i].type = "ack"
          PROVE  HasField(S[i], log[rest[i].writeId].key,
                                log[rest[i].writeId].field)
      <4>1. i + 1 \in 1..n /\ i \in 0..(n - 1)
        BY <1>1
      <4>2. S[i] = T[i + 1] /\ rest[i] = box[i + 1]
        BY <1>1, <1>4, <4>1
      <4> QED BY <2>1, <3>3, <4>1, <4>2 DEF PathInv, Heard, n
    <3> QED BY <1>1, <2>1, <3>1, <3>2, <3>3 DEF Heard
  <2>2. CASE ~obs
    <3>1. ASSUME NEW i \in 1..(n - 1) PROVE rest[i].type = "ack" /\ S[i] = S[0]
      <4>1. i + 1 \in 1..n /\ i \in 0..(n - 1) /\ 1 \in 1..n /\ 0 \in 0..(n - 1)
        BY <1>1
      <4>2. S[i] = T[i + 1] /\ rest[i] = box[i + 1] /\ S[0] = T[1]
        BY <1>1, <1>4, <4>1
      <4> QED BY <2>2, <4>1, <4>2 DEF PathInv, Heard, n
    <3> QED BY <1>1, <2>2, <3>1 DEF Heard
  <2> QED BY <2>1, <2>2
<1>8. box[1].type = "ack" => a2 = a + 1
  BY <1>0, AckIsNext
<1>9. AcksInOrder(rest, a2, app)
  <2>1. ASSUME NEW i \in 1..(n - 1), rest[i].type = "ack"
        PROVE  /\ rest[i].writeId > a2
               /\ \A j \in 1..(i - 1) : rest[j].type = "ack" =>
                    rest[j].writeId < rest[i].writeId
    <3>1. i + 1 \in 1..n /\ rest[i] = box[i + 1] /\ 1 \in 1..(i + 1 - 1)
      BY <1>1
    <3>2. rest[i].writeId > a2
      BY <1>0, <2>1, <3>1 DEF AcksInOrder, n
    <3>3. ASSUME NEW j \in 1..(i - 1), rest[j].type = "ack"
          PROVE  rest[j].writeId < rest[i].writeId
      <4>1. j \in 1..(n - 1) /\ j + 1 \in 1..(i + 1 - 1)
        BY <1>1
      <4>2. rest[j] = box[j + 1]
        BY <1>1, <4>1
      <4> QED BY <2>1, <3>1, <3>3, <4>1, <4>2 DEF AcksInOrder, n
    <3> QED BY <3>2, <3>3
  <2>2. ASSUME NEW v \in (a2 + 1)..app
        PROVE  \E i \in 1..(n - 1) : rest[i].type = "ack" /\ rest[i].writeId = v
    <3>1. v \in (a + 1)..app /\ v # a2 /\ v > a2
      BY <1>0, <1>8
    <3>2. PICK i \in 1..n : box[i].type = "ack" /\ box[i].writeId = v
      BY <3>1 DEF AcksInOrder, n
    <3>3. i # 1
      BY <1>0, <3>1, <3>2
    <3>4. i - 1 \in 1..(n - 1) /\ i - 1 + 1 = i
      BY <1>1, <3>3
    <3> QED BY <1>1, <3>2, <3>4
  <2> QED BY <1>1, <2>1, <2>2 DEF AcksInOrder
<1>10. Covers(Deliver(tree, box[1]), tree)
  <2>1. 1 \in 1..n /\ 1 - 1 = 0
    BY <1>1
  <2> QED BY <1>2, <1>3, <2>1 DEF PathInv, OnlyGrows, n
<1>11. NothingForgotten(S, rest, obs, log, a2, ing2)
  <2> SUFFICES ASSUME ~CrashInAck
               PROVE  /\ \A v \in 1..a2 : v # a2 \/ ~ing2 \/ obs =>
                           HasField(S[0], log[v].key, log[v].field)
                      /\ \A i \in 0..(n - 1) : UrlComplete(S[i])
    BY <1>1 DEF NothingForgotten
  <2>1. ASSUME NEW i \in 0..(n - 1) PROVE UrlComplete(S[i])
    <3>1. i + 1 \in 0..n /\ S[i] = T[i + 1]
      BY <1>1, <1>4
    <3> QED BY <3>1 DEF PathInv, NothingForgotten, n
  <2>2. S[0] = T[1] /\ 1 \in 1..n /\ 1 - 1 = 0
    BY <1>1, <1>4
  <2>3. Covers(T[1], T[0])
    BY <2>2 DEF PathInv, OnlyGrows, n
  <2>4. ASSUME NEW v \in 1..a2, v # a2 \/ ~ing2 \/ obs
        PROVE  HasField(S[0], log[v].key, log[v].field)
    <3>1. CASE v \in 1..a
      <4>1. HasField(T[0], log[v].key, log[v].field)
        BY <3>1 DEF PathInv, NothingForgotten
      <4>2. log[v] \in Writes
        BY <3>1
      <4> QED BY <2>2, <2>3, <4>1, <4>2 DEF Covers, Writes
    <3>2. CASE v \notin 1..a
      <4>1. box[1].type = "ack" /\ v = a2 /\ obs
        BY <1>0, <1>8, <2>4, <3>2
      <4> QED BY <1>0, <2>2, <4>1 DEF PathInv, Heard, n
    <3> QED BY <3>1, <3>2
  <2> QED BY <2>1, <2>4
<1> QED BY <1>5, <1>6, <1>7, <1>8, <1>9, <1>10, <1>11 DEF PathInv, rest

\* A message is sent: the path gets one tree longer.
LEMMA SendUpdate ==
    ASSUME NEW T, NEW tree \in Trees, NEW box \in Seq(Messages),
           NEW srv \in Trees, NEW w \in Writes,
           NEW ld,
           NEW log \in Seq(Writes), NEW a \in Nat, NEW ing,
           PathInv(T, tree, box, srv, TRUE, ld, log, a, ing),
           UrlComplete(SetField(srv, w))
    PROVE  \E S : PathInv(S, tree, Sent(box, Update(w)), SetField(srv, w),
                          TRUE, ld, log, a, ing)
<1> DEFINE n == Len(box)
           S == [i \in 0..(n + 1) |-> IF i <= n THEN T[i] ELSE SetField(srv, w)]
           more == Sent(box, Update(w))
           big == SetField(srv, w)
<1>1. /\ n \in Nat /\ Len(more) = n + 1
      /\ \A i \in 1..n : more[i] = box[i]
      /\ more[n + 1].type = "update" /\ more[n + 1].write = w
  BY MessageTypes DEF Update, Sent
<1>2. /\ T \in [0..n -> Trees] /\ T[0] = tree /\ T[n] = srv
      /\ \A i \in 1..n : T[i] = Deliver(T[i - 1], box[i])
  BY DEF PathInv, Path, Heard
<1>b. n + 1 - 1 = n /\ n \in 0..n
  BY <1>1
<1>3. big \in Trees /\ Covers(big, srv)
  BY SetFieldType, SetFieldCovers
<1> HIDE DEF big
<1>4. /\ S \in [0..(n + 1) -> Trees] /\ S[n + 1] = big
      /\ \A i \in 0..n : S[i] = T[i]
  BY <1>1, <1>2, <1>3 DEF big
<1> HIDE DEF S, more, n
<1>5. Path(S, tree, more)
  <2>1. ASSUME NEW i \in 1..(n + 1) PROVE S[i] = Deliver(S[i - 1], more[i])
    <3>1. CASE i \in 1..n
      <4>1. i \in 0..n /\ i - 1 \in 0..n
        BY <1>1, <3>1
      <4> QED BY <1>1, <1>2, <1>4, <3>1, <4>1
    <3>2. CASE i = n + 1
      <4>1. i - 1 = n /\ n \in 0..n
        BY <1>b, <3>2
      <4> QED BY <1>1, <1>2, <1>4, <3>2, <4>1 DEF Deliver, big
    <3> QED BY <1>1, <3>1, <3>2
  <2>2. 0 \in 0..n
    BY <1>1
  <2> QED BY <1>1, <1>2, <1>4, <2>1, <2>2 DEF Path
<1>6. OnlyGrows(S, more, big)
  <2>1. ASSUME NEW i \in 1..(n + 1) PROVE Covers(S[i], S[i - 1])
    <3>1. CASE i \in 1..n
      <4>1. i \in 0..n /\ i - 1 \in 0..n
        BY <1>1, <3>1
      <4> QED BY <1>4, <3>1, <4>1 DEF PathInv, OnlyGrows, n
    <3>2. CASE i = n + 1
      <4>1. i - 1 = n /\ n \in 0..n
        BY <1>b, <3>2
      <4> QED BY <1>2, <1>3, <1>4, <3>2, <4>1
    <3> QED BY <1>1, <3>1, <3>2
  <2>2. ASSUME NEW i \in 0..(n + 1) PROVE Covers(big, S[i])
    <3>1. CASE i \in 0..n
      <4>1. Covers(srv, T[i])
        BY <3>1 DEF PathInv, OnlyGrows, n
      <4> QED BY <1>3, <1>4, <3>1, <4>1 DEF Covers
    <3>2. CASE i = n + 1
      BY <1>4, <3>2 DEF Covers
    <3> QED BY <1>1, <3>1, <3>2
  <2> QED BY <1>1, <2>1, <2>2 DEF OnlyGrows
<1>7. Heard(S, more, big, TRUE, ld, log)
  <2>1. ld \/ \E i \in 1..(n + 1) : more[i].type = "snapshot"
    <3>1. CASE ~ld
      <4>1. PICK i \in 1..n : box[i].type = "snapshot"
        BY <3>1 DEF PathInv, Heard, n
      <4>2. i \in 1..(n + 1)
        BY <1>1
      <4> QED BY <1>1, <4>1, <4>2
    <3> QED BY <3>1
  <2>2. ASSUME NEW i \in 1..(n + 1), more[i].type = "ack"
        PROVE  HasField(S[i], log[more[i].writeId].key,
                              log[more[i].writeId].field)
    <3>1. i \in 1..n /\ i \in 0..n
      BY <1>1, <2>2
    <3> QED BY <1>1, <1>4, <2>2, <3>1 DEF PathInv, Heard, n
  <2> QED BY <1>1, <1>4, <2>1, <2>2 DEF Heard
<1>8. NothingForgotten(S, more, TRUE, log, a, ing)
  <2> SUFFICES ASSUME ~CrashInAck
               PROVE  /\ \A v \in 1..a : HasField(S[0], log[v].key, log[v].field)
                      /\ \A i \in 0..(n + 1) : UrlComplete(S[i])
    BY <1>1 DEF NothingForgotten
  <2>1. S[0] = T[0]
    BY <1>1, <1>4
  <2>2. ASSUME NEW i \in 0..(n + 1) PROVE UrlComplete(S[i])
    <3>1. CASE i \in 0..n
      BY <1>4, <3>1 DEF PathInv, NothingForgotten, n
    <3>2. CASE i = n + 1
      BY <1>4, <3>2 DEF big
    <3> QED BY <1>1, <3>1, <3>2
  <2> QED BY <2>1, <2>2 DEF PathInv, NothingForgotten
<1> QED BY <1>5, <1>6, <1>7, <1>8 DEF PathInv, big, more

\* The acknowledgement of a write the server has stored is sent.
LEMMA SendAck ==
    ASSUME NEW T, NEW tree \in Trees, NEW box \in Seq(Messages),
           NEW srv \in Trees, NEW obs \in BOOLEAN, NEW ld \in BOOLEAN,
           NEW log \in Seq(Writes), NEW a \in Nat, NEW ing \in BOOLEAN,
           PathInv(T, tree, box, srv, obs, ld, log, a, ing),
           NEW v \in 1..Len(log), HasField(srv, log[v].key, log[v].field)
    PROVE  \E S : PathInv(S, tree, Sent(box, Ack(v)), srv, obs, ld, log, a,
                          ing)
<1> DEFINE n == Len(box)
           S == [i \in 0..(n + 1) |-> IF i <= n THEN T[i] ELSE T[n]]
           more == Sent(box, Ack(v))
<1>1. /\ n \in Nat /\ Len(more) = n + 1
      /\ \A i \in 1..n : more[i] = box[i]
      /\ more[n + 1].type = "ack" /\ more[n + 1].writeId = v
  BY MessageTypes DEF Ack, Sent
<1>2. /\ T \in [0..n -> Trees] /\ T[0] = tree
      /\ \A i \in 1..n : T[i] = Deliver(T[i - 1], box[i])
  BY DEF PathInv, Path
<1>3. n \in 0..n /\ 0 \in 0..n /\ n + 1 - 1 = n /\ T[n] \in Trees
  BY <1>1, <1>2
<1>4. /\ S \in [0..(n + 1) -> Trees] /\ S[n + 1] = T[n]
      /\ \A i \in 0..n : S[i] = T[i]
  <2> HIDE DEF n
  <2>1. \A i \in 0..(n + 1) : i <= n => i \in 0..n
    BY <1>1
  <2>2. \A i \in 0..(n + 1) : S[i] \in Trees
    BY <1>2, <1>3, <2>1
  <2>3. n + 1 \in 0..(n + 1) /\ ~(n + 1 <= n)
    BY <1>1
  <2>4. \A i \in 0..n : i \in 0..(n + 1) /\ i <= n
    BY <1>1
  <2> QED BY <2>2, <2>3, <2>4
<1> HIDE DEF S, more, n
<1>5. Path(S, tree, more)
  <2>1. ASSUME NEW i \in 1..(n + 1) PROVE S[i] = Deliver(S[i - 1], more[i])
    <3>1. CASE i \in 1..n
      <4>1. i \in 0..n /\ i - 1 \in 0..n
        BY <1>1, <3>1
      <4> QED BY <1>1, <1>2, <1>4, <3>1, <4>1
    <3>2. CASE i = n + 1
      BY <1>1, <1>3, <1>4, <3>2 DEF Deliver
    <3> QED BY <1>1, <3>1, <3>2
  <2> QED BY <1>1, <1>2, <1>3, <1>4, <2>1 DEF Path
<1>6. OnlyGrows(S, more, srv)
  <2>1. ASSUME NEW i \in 1..(n + 1) PROVE Covers(S[i], S[i - 1])
    <3>1. CASE i \in 1..n
      <4>1. i \in 0..n /\ i - 1 \in 0..n
        BY <1>1, <3>1
      <4> QED BY <1>4, <3>1, <4>1 DEF PathInv, OnlyGrows, n
    <3>2. CASE i = n + 1
      BY <1>3, <1>4, <3>2 DEF Covers
    <3> QED BY <1>1, <3>1, <3>2
  <2>2. ASSUME NEW i \in 0..(n + 1) PROVE Covers(srv, S[i])
    <3>1. PICK j \in 0..n : S[i] = T[j]
      BY <1>1, <1>3, <1>4, SMTT(30)
    <3> QED BY <3>1 DEF PathInv, OnlyGrows, n
  <2> QED BY <1>1, <2>1, <2>2 DEF OnlyGrows
<1>7. Heard(S, more, srv, obs, ld, log)
  <2>1. CASE obs
    <3>1. ld \/ \E i \in 1..(n + 1) : more[i].type = "snapshot"
      <4>1. CASE ~ld
        <5>1. PICK i \in 1..n : box[i].type = "snapshot"
          BY <2>1, <4>1 DEF PathInv, Heard, n
        <5>2. i \in 1..(n + 1)
          BY <1>1
        <5> QED BY <1>1, <5>1, <5>2
      <4> QED BY <4>1
    <3>2. T[n] = srv
      BY <2>1 DEF PathInv, Heard, n
    <3>3. ASSUME NEW i \in 1..(n + 1), more[i].type = "ack"
          PROVE  HasField(S[i], log[more[i].writeId].key,
                                log[more[i].writeId].field)
      <4>1. CASE i \in 1..n
        <5>1. i \in 0..n
          BY <4>1
        <5> QED BY <1>1, <1>4, <2>1, <3>3, <4>1, <5>1 DEF PathInv, Heard, n
      <4>2. CASE i = n + 1
        BY <1>1, <1>4, <3>2, <4>2
      <4> QED BY <1>1, <4>1, <4>2
    <3> QED BY <1>1, <1>4, <2>1, <3>1, <3>2, <3>3 DEF Heard
  <2>2. CASE ~obs
    <3>1. ASSUME NEW i \in 1..(n + 1) PROVE more[i].type = "ack" /\ S[i] = S[0]
      <4>1. CASE i \in 1..n
        <5>1. i \in 0..n
          BY <4>1
        <5> QED BY <1>1, <1>3, <1>4, <2>2, <4>1, <5>1 DEF PathInv, Heard, n
      <4>2. CASE i = n + 1
        <5>1. T[n] = T[0]
          <6>1. n = 0 \/ n \in 1..n
            BY <1>1
          <6> QED BY <2>2, <6>1 DEF PathInv, Heard, n
        <5> QED BY <1>1, <1>3, <1>4, <4>2, <5>1
      <4> QED BY <1>1, <4>1, <4>2
    <3> QED BY <1>1, <2>2, <3>1 DEF Heard
  <2> QED BY <2>1, <2>2
<1>8. NothingForgotten(S, more, obs, log, a, ing)
  <2> SUFFICES ASSUME ~CrashInAck
               PROVE  /\ \A u \in 1..a : u # a \/ ~ing \/ obs =>
                           HasField(S[0], log[u].key, log[u].field)
                      /\ \A i \in 0..(n + 1) : UrlComplete(S[i])
    BY <1>1 DEF NothingForgotten
  <2>1. S[0] = T[0]
    BY <1>3, <1>4
  <2>2. ASSUME NEW i \in 0..(n + 1) PROVE UrlComplete(S[i])
    <3>1. PICK j \in 0..n : S[i] = T[j]
      <4>1. i \in 0..n \/ i = n + 1
        BY <1>1
      <4> QED BY ONLY <1>3, <1>4, <4>1
    <3> QED BY <3>1 DEF PathInv, NothingForgotten, n
  <2> QED BY <2>1, <2>2 DEF PathInv, NothingForgotten
<1> QED BY <1>5, <1>6, <1>7, <1>8 DEF PathInv, more

\* Another device's write is stored: who does not listen is not told.
LEMMA ServerGrows ==
    ASSUME NEW T, NEW tree \in Trees, NEW box \in Seq(Messages),
           NEW srv \in Trees, NEW big \in Trees, Covers(big, srv),
           NEW obs \in BOOLEAN, ~obs, NEW ld \in BOOLEAN, NEW log \in Seq(Writes), NEW a \in Nat,
           NEW ing \in BOOLEAN,
           PathInv(T, tree, box, srv, obs, ld, log, a, ing)
    PROVE  PathInv(T, tree, box, big, obs, ld, log, a, ing)
<1>1. OnlyGrows(T, box, big)
  BY DEF PathInv, OnlyGrows, Covers
<1>2. Heard(T, box, big, obs, ld, log)
  BY DEF PathInv, Heard
<1> QED BY <1>1, <1>2 DEF PathInv

\* A listen is answered with the server's tree, before all that waits.
LEMMA StartListening ==
    ASSUME NEW T, NEW tree \in Trees, NEW box \in Seq(Messages),
           NEW srv \in Trees, 
           NEW ld \in BOOLEAN, NEW log \in Seq(Writes),
           NEW a \in Nat, UrlComplete(srv), NEW app \in Nat,
           AcksKnown(box, app), Stored(srv, log, app),
           PathInv(T, tree, box, srv, FALSE, ld, log, a, FALSE)
    PROVE  \E S : PathInv(S, tree, Answered(box, srv), srv, TRUE, ld,
                          log, a, FALSE)
<1> DEFINE n == Len(box)
           S == [i \in 0..(n + 1) |-> IF i = 0 THEN tree ELSE srv]
           more == Answered(box, srv)
<1>1. /\ n \in Nat /\ Len(more) = n + 1
      /\ \A i \in 2..(n + 1) : i - 1 \in 1..n /\ more[i] = box[i - 1]
      /\ more[1] = Snapshot(srv)
  <2>1. <<Snapshot(srv)>> \in Seq(Messages)
    BY MessageTypes
  <2> QED BY <2>1 DEF Answered
<1>2. more[1].type = "snapshot" /\ more[1].tree = srv
  BY <1>1 DEF Snapshot
<1>3. \A i \in 2..(n + 1) : /\ more[i].type = "ack"
                            /\ more[i].writeId \in 1..app
  BY <1>1 DEF PathInv, Heard, AcksKnown
<1>4. /\ S \in [0..(n + 1) -> Trees] /\ S[0] = tree
      /\ \A i \in 1..(n + 1) : S[i] = srv
  BY <1>1
<1>5. T[0] = tree /\ 0 \in 0..n
  BY <1>1 DEF PathInv, Path
<1>6. Covers(srv, tree) /\ Covers(srv, srv)
  BY <1>5 DEF PathInv, OnlyGrows, Covers
<1> HIDE DEF S, more
<1>7. Path(S, tree, more)
  <2>1. ASSUME NEW i \in 1..(n + 1) PROVE S[i] = Deliver(S[i - 1], more[i])
    <3>1. CASE i = 1
      BY <1>2, <1>4, <3>1 DEF Deliver
    <3>2. CASE i \in 2..(n + 1)
      <4>1. i - 1 \in 1..(n + 1)
        BY <1>1, <3>2
      <4> QED BY <1>3, <1>4, <3>2, <4>1 DEF Deliver
    <3> QED BY <1>1, <3>1, <3>2
  <2> QED BY <1>1, <1>4, <2>1 DEF Path
<1>8. OnlyGrows(S, more, srv)
  <2>1. ASSUME NEW i \in 0..(n + 1) PROVE Covers(srv, S[i])
    BY <1>1, <1>4, <1>6
  <2>2. ASSUME NEW i \in 1..(n + 1) PROVE Covers(S[i], S[i - 1])
    <3>1. i - 1 \in 0..(n + 1)
      BY <1>1
    <3> QED BY <1>4, <2>1, <3>1
  <2> QED BY <1>1, <2>1, <2>2 DEF OnlyGrows
<1>9. Heard(S, more, srv, TRUE, ld, log)
  <2>1. n + 1 \in 1..(n + 1) /\ 1 \in 1..(n + 1)
    BY <1>1
  <2>2. ASSUME NEW i \in 1..(n + 1), more[i].type = "ack"
        PROVE  HasField(S[i], log[more[i].writeId].key,
                              log[more[i].writeId].field)
    <3>1. i \in 2..(n + 1)
      BY <1>1, <1>2, <2>2
    <3> QED BY <1>3, <1>4, <3>1 DEF Stored
  <2> QED BY <1>1, <1>2, <1>4, <2>1, <2>2 DEF Heard
<1>10. NothingForgotten(S, more, TRUE, log, a, FALSE)
  <2> SUFFICES ASSUME ~CrashInAck
               PROVE  /\ \A v \in 1..a : HasField(S[0], log[v].key, log[v].field)
                      /\ \A i \in 0..(n + 1) : UrlComplete(S[i])
    BY <1>1 DEF NothingForgotten
  <2>1. UrlComplete(tree)
    BY <1>5 DEF PathInv, NothingForgotten
  <2> QED BY <1>1, <1>4, <1>5, <2>1 DEF PathInv, NothingForgotten
<1> QED BY <1>7, <1>8, <1>9, <1>10 DEF PathInv, more

\* The acknowledged write of a client that does not listen is cached.
LEMMA CacheWrite ==
    ASSUME NEW T, NEW tree \in Trees, NEW box \in Seq(Messages),
           NEW srv \in Trees, NEW obs \in BOOLEAN, ~obs,
           NEW ing \in BOOLEAN, NEW ing2 \in BOOLEAN, ~ing2, NEW ld \in BOOLEAN, NEW log \in Seq(Writes),
           NEW a \in 1..Len(log), HasField(srv, log[a].key, log[a].field),
           FieldsBefore(log, a),
           PathInv(T, tree, box, srv, obs, ld, log, a, ing)
    PROVE  /\ \E S : PathInv(S, SetField(tree, log[a]), box, srv, obs, ld,
                             log, a, ing2)
           /\ Covers(SetField(tree, log[a]), tree)
<1> DEFINE n == Len(box)
           S == [i \in 0..n |-> SetField(tree, log[a])]
           new == SetField(tree, log[a])
<1>1. /\ n \in Nat /\ 0 \in 0..n /\ log[a] \in Writes
      /\ T[0] = tree /\ Covers(srv, tree)
      /\ \A i \in 1..n : box[i].type = "ack" /\ i \in 0..n /\ i - 1 \in 0..n
  BY DEF PathInv, Path, OnlyGrows, Heard
<1>2. /\ new \in Trees /\ Covers(new, tree) /\ Covers(srv, new)
      /\ HasField(new, log[a].key, log[a].field)
  BY <1>1, SetFieldType, SetFieldCovers
<1> HIDE DEF new
<1>3. S \in [0..n -> Trees] /\ \A i \in 0..n : S[i] = new
  BY <1>2 DEF new
<1> HIDE DEF S
<1>4. Path(S, new, box)
  BY <1>1, <1>3 DEF Path, Deliver
<1>5. OnlyGrows(S, box, srv)
  BY <1>1, <1>2, <1>3 DEF OnlyGrows, Covers
<1>6. Heard(S, box, srv, obs, ld, log)
  BY <1>1, <1>3 DEF Heard
<1>7. NothingForgotten(S, box, obs, log, a, ing2)
  <2> SUFFICES ASSUME ~CrashInAck
               PROVE  /\ \A v \in 1..a : HasField(S[0], log[v].key, log[v].field)
                      /\ \A i \in 0..n : UrlComplete(S[i])
    BY DEF NothingForgotten
  <2>1. UrlComplete(tree)
    BY <1>1 DEF PathInv, NothingForgotten
  <2>2. ASSUME NEW v \in 1..a, v # a
        PROVE  /\ log[v].key \in Keys /\ log[v].field \in Fields
               /\ HasField(tree, log[v].key, log[v].field)
    <3>1. log[v] \in Writes
      OBVIOUS
    <3>2. HasField(T[0], log[v].key, log[v].field)
      BY <2>2 DEF PathInv, NothingForgotten
    <3> QED BY <1>1, <3>1, <3>2 DEF Writes
  <2>3. \A v \in 1..a : HasField(new, log[v].key, log[v].field)
    BY <1>2, <2>2 DEF Covers
  <2>4. UrlComplete(new)
    <3> SUFFICES ASSUME NEW k \in Keys, HasField(new, k, "url"), NEW f \in Base
                 PROVE  HasField(new, k, f)
      BY DEF UrlComplete, Complete, Base
    <3>1. f \in Fields /\ "url" \in Fields
      BY DEF Base, Fields
    <3>2. CASE HasField(tree, k, "url")
      <4>1. HasField(tree, k, f)
        BY <2>1, <3>2 DEF UrlComplete, Complete, Base
      <4> QED BY <1>2, <3>1, <4>1 DEF Covers
    <3>3. CASE ~HasField(tree, k, "url")
      <4>1. k = log[a].key /\ log[a].field = "url"
        BY <1>1, <3>1, <3>3, SetFieldKeeps DEF new
      <4>2. PICK j \in 1..(a - 1) : log[j].key = k /\ log[j].field = f
        BY <4>1 DEF FieldsBefore
      <4>3. j \in 1..a /\ j # a
        OBVIOUS
      <4>4. HasField(tree, k, f)
        BY <2>2, <4>2, <4>3
      <4> QED BY <1>2, <3>1, <4>4 DEF Covers
    <3> QED BY <3>2, <3>3
  <2> QED BY <1>1, <1>3, <2>3, <2>4
<1> QED BY <1>2, <1>4, <1>5, <1>6, <1>7 DEF PathInv, new

\* The connection is gone, and what it carried.
LEMMA StopListening ==
    ASSUME NEW T, NEW tree \in Trees, NEW box \in Seq(Messages),
           NEW srv \in Trees, NEW obs \in BOOLEAN, NEW ld \in BOOLEAN,
           NEW log \in Seq(Writes), NEW a \in Nat, NEW ing \in BOOLEAN,
           NEW obs2 \in BOOLEAN, ~obs2, NEW ing2 \in BOOLEAN, ~ing2,
           ing => CrashInAck,
           PathInv(T, tree, box, srv, obs, ld, log, a, ing)
    PROVE  \E S : PathInv(S, tree, <<>>, srv, obs2, ld, log, a, ing2)
<1> DEFINE S == [i \in 0..0 |-> tree]
<1>1. 0 \in 0..Len(box) /\ T[0] = tree
  BY DEF PathInv, Path
<1>2. Covers(srv, tree)
  BY <1>1 DEF PathInv, OnlyGrows
<1>3. Len(<<>>) = 0 /\ \A i \in 0..0 : i = 0
  OBVIOUS
<1>4. S \in [0..0 -> Trees] /\ S[0] = tree
  OBVIOUS
<1> HIDE DEF S
<1>5. Path(S, tree, <<>>) /\ OnlyGrows(S, <<>>, srv)
        /\ Heard(S, <<>>, srv, obs2, ld, log)
  BY <1>2, <1>3, <1>4 DEF Path, OnlyGrows, Heard
<1>6. NothingForgotten(S, <<>>, obs2, log, a, ing2)
  BY <1>1, <1>3, <1>4 DEF NothingForgotten, PathInv
<1> QED BY <1>5, <1>6 DEF PathInv

\* One more write on disk changes nothing for those before it.
LEMMA LogGrows ==
    ASSUME NEW T, NEW tree \in Trees, NEW box \in Seq(Messages),
           NEW srv \in Trees, NEW obs \in BOOLEAN, NEW ld \in BOOLEAN,
           NEW log \in Seq(Writes), NEW a \in Nat, NEW ing \in BOOLEAN,
           NEW app \in 0..Len(log), a <= app, NEW w \in Writes,
           AcksKnown(box, app),
           PathInv(T, tree, box, srv, obs, ld, log, a, ing)
    PROVE  PathInv(T, tree, box, srv, obs, ld, Append(log, w), a, ing)
<1> DEFINE more == Append(log, w)
<1>1. \A v \in 1..app : more[v] = log[v]
  OBVIOUS
<1> HIDE DEF more
<1>2. Heard(T, box, srv, obs, ld, more)
  <2>1. ASSUME obs, NEW i \in 1..Len(box), box[i].type = "ack"
        PROVE  HasField(T[i], more[box[i].writeId].key,
                              more[box[i].writeId].field)
    <3>1. more[box[i].writeId] = log[box[i].writeId]
      BY <1>1, <2>1 DEF AcksKnown
    <3> QED BY <2>1, <3>1 DEF PathInv, Heard
  <2> QED BY <2>1 DEF PathInv, Heard
<1>3. NothingForgotten(T, box, obs, more, a, ing)
  <2>1. \A v \in 1..a : more[v] = log[v]
    BY <1>1
  <2> QED BY <2>1 DEF PathInv, NothingForgotten
<1> QED BY <1>2, <1>3 DEF PathInv, more

\* What holds of one device.
ClientOK(d) ==
    /\ AcksInOrder(inbox[d], acked[d], applied[d])
    /\ \E T : PathInv(T, cache[d], inbox[d], server, observing[d], loaded[d],
                      userWrites[d], acked[d], acking[d])

ClientInv == \A d \in Devices : ClientOK(d)

LEMMA InitClientInv == Init => ClientInv
<1> SUFFICES ASSUME Init, NEW d \in Devices PROVE ClientOK(d)
  BY DEF ClientInv
<1>1. /\ inbox[d] = <<>> /\ acked[d] = 0 /\ applied[d] = 0 /\ ~observing[d]
      /\ cache[d] = EmptyTree /\ server = EmptyTree
  BY DEF Init
<1> DEFINE T == [i \in 0..0 |-> EmptyTree]
<1>2. T \in [0..0 -> Trees] /\ T[0] = EmptyTree
  BY EmptyTreeType
<1> HIDE DEF T
<1>3. Len(<<>>) = 0 /\ \A i \in 0..0 : i = 0
  OBVIOUS
<1>4. UrlComplete(EmptyTree) /\ Covers(EmptyTree, EmptyTree)
  BY DEF UrlComplete, Covers, HasField, EmptyTree, Fields
<1>5. AcksInOrder(<<>>, 0, 0)
  BY DEF AcksInOrder
<1>6. Path(T, EmptyTree, <<>>) /\ OnlyGrows(T, <<>>, EmptyTree)
  BY <1>2, <1>3, <1>4 DEF Path, OnlyGrows
<1>7. /\ Heard(T, <<>>, EmptyTree, observing[d], loaded[d], userWrites[d])
      /\ NothingForgotten(T, <<>>, observing[d], userWrites[d], 0, acking[d])
  BY <1>1, <1>2, <1>3, <1>4 DEF Heard, NothingForgotten
<1>8. PathInv(T, cache[d], inbox[d], server, observing[d], loaded[d],
              userWrites[d], acked[d], acking[d])
  BY <1>1, <1>6, <1>7 DEF PathInv
<1> QED BY <1>1, <1>5, <1>8 DEF ClientOK

LEMMA NextClientInv ==
    TypeInv /\ OrderInv /\ ClientInv /\ [Next]_vars
      => ClientInv' /\ \A d \in Devices : Covers(cache'[d], cache[d])
<1> SUFFICES ASSUME TypeInv, OrderInv, ClientInv, [Next]_vars,
                    NEW e \in Devices
             PROVE  ClientOK(e)' /\ Covers(cache'[e], cache[e])
  BY DEF ClientInv
<1> USE DEF diskVars, netVars
<1>1. /\ cache[e] \in Trees /\ server \in Trees /\ inbox[e] \in Seq(Messages)
      /\ observing[e] \in BOOLEAN /\ loaded[e] \in BOOLEAN
      /\ acking[e] \in BOOLEAN /\ acked[e] \in Nat /\ applied[e] \in Nat
      /\ userWrites[e] \in Seq(Writes)
  BY DEF TypeInv, TypeOK
<1>2. /\ acked[e] <= applied[e] /\ applied[e] <= Len(userWrites[e])
      /\ AcksKnown(inbox[e], applied[e])
      /\ acking[e] => 1 <= acked[e]
  BY DEF TypeInv, WriteIdsOK, AcksKnown
<1>3. AcksInOrder(inbox[e], acked[e], applied[e])
  BY DEF ClientInv, ClientOK
<1>4. PICK T : PathInv(T, cache[e], inbox[e], server, observing[e], loaded[e],
                       userWrites[e], acked[e], acking[e])
  BY DEF ClientInv, ClientOK
<1>5. Covers(cache[e], cache[e])
  BY DEF Covers
<1>6. UrlComplete(server) /\ UrlComplete(server')
  BY NextOrderInv DEF OrderInv, ServerUrlImpliesComplete, UrlComplete, Complete, HasField
<1>7. Stored(server, userWrites[e], applied[e])
  BY DEF OrderInv, AppliedIsStored, Stored
<1>8. ASSUME /\ inbox'[e] = inbox[e] /\ cache'[e] = cache[e]
             /\ server' = server /\ observing'[e] = observing[e]
             /\ loaded'[e] = loaded[e] /\ userWrites'[e] = userWrites[e]
             /\ acked'[e] = acked[e] /\ acking'[e] = acking[e]
             /\ applied'[e] = applied[e]
      PROVE  ClientOK(e)' /\ Covers(cache'[e], cache[e])
  <2>1. AcksInOrder(inbox'[e], acked'[e], applied'[e])
    BY <1>3, <1>8
  <2>2. PathInv(T, cache'[e], inbox'[e], server', observing'[e], loaded'[e],
                userWrites'[e], acked'[e], acking'[e])
    BY <1>4, <1>8
  <2> QED BY <1>5, <1>8, <2>1, <2>2 DEF ClientOK
<1>9. ASSUME NEW n \in Detections,
             addDetection(n) \/ Uploading(n) \/ completedWithError(n)
      PROVE  ClientOK(e)' /\ Covers(cache'[e], cache[e])
  BY <1>8, <1>9 DEF addDetection, Uploading, storageCommit, putDataCompleted,
                    downloadURLCompleted, completedWithError
<1>10. CASE UNCHANGED vars
  BY <1>8, <1>10 DEF vars
<1>11. ASSUME NEW d \in Devices, restart(d)
       PROVE  ClientOK(e)' /\ Covers(cache'[e], cache[e])
  BY <1>8, <1>11 DEF restart
<1>12. ASSUME NEW d \in Devices, observe(d)
       PROVE  ClientOK(e)' /\ Covers(cache'[e], cache[e])
  <2>1. CASE e # d
    BY <1>8, <1>12, <2>1 DEF observe, TypeInv, TypeOK
  <2>2. CASE e = d
    <3>1. /\ ~observing[e] /\ ~acking[e] /\ observing'[e] = TRUE
          /\ inbox'[e] = Answered(inbox[e], server)
          /\ cache'[e] = cache[e] /\ server' = server /\ loaded'[e] = loaded[e]
          /\ userWrites'[e] = userWrites[e] /\ acked'[e] = acked[e]
          /\ acking'[e] = acking[e] /\ applied'[e] = applied[e]
      BY <1>12, <2>2 DEF observe, TypeInv, TypeOK, Answered
    <3>2. \E S : PathInv(S, cache[e], Answered(inbox[e], server), server,
                         observing'[e], loaded[e], userWrites[e], acked[e],
                         acking[e])
      <4>1. observing[e] = FALSE /\ acking[e] = FALSE
        BY <1>1, <3>1
      <4>2. PathInv(T, cache[e], inbox[e], server, FALSE, loaded[e],
                    userWrites[e], acked[e], FALSE)
        BY <1>4, <4>1
      <4>3. \E S : PathInv(S, cache[e], Answered(inbox[e], server), server,
                           TRUE, loaded[e], userWrites[e], acked[e], FALSE)
        BY <1>1, <1>2, <1>6, <1>7, <4>2, StartListening, ZenonT(30)
      <4> QED BY <3>1, <4>1, <4>3
    <3>3. AcksInOrder(inbox'[e], acked'[e], applied'[e])
      <4>1. <<Snapshot(server)>> \in Seq(Messages)
        BY <1>1, MessageTypes
      <4>2. /\ Len(inbox'[e]) = Len(inbox[e]) + 1
            /\ inbox'[e][1] = Snapshot(server)
            /\ \A i \in 1..Len(inbox[e]) : inbox'[e][i + 1] = inbox[e][i]
            /\ \A i \in 2..Len(inbox'[e]) :
                  i - 1 \in 1..Len(inbox[e]) /\ inbox'[e][i] = inbox[e][i - 1]
        BY <1>1, <3>1, <4>1 DEF Answered
      <4>3. inbox'[e][1].type # "ack"
        BY <4>2 DEF Snapshot
      <4>4. ASSUME NEW i \in 1..Len(inbox'[e]), inbox'[e][i].type = "ack"
            PROVE  /\ inbox'[e][i].writeId > acked[e]
                   /\ \A j \in 1..(i - 1) : inbox'[e][j].type = "ack" =>
                        inbox'[e][j].writeId < inbox'[e][i].writeId
        <5>1. i \in 2..Len(inbox'[e])
          BY <1>1, <4>2, <4>3, <4>4
        <5>2. ASSUME NEW j \in 1..(i - 1), inbox'[e][j].type = "ack"
              PROVE  inbox'[e][j].writeId < inbox'[e][i].writeId
          <6>1. j \in 2..Len(inbox'[e]) /\ j - 1 \in 1..(i - 1 - 1)
            BY <1>1, <4>2, <4>3, <5>1, <5>2
          <6>2. /\ i - 1 \in 1..Len(inbox[e])
                /\ inbox'[e][i] = inbox[e][i - 1]
                /\ inbox'[e][j] = inbox[e][j - 1]
            BY <4>2, <5>1, <6>1
          <6>3. \A k \in 1..Len(inbox[e]) : inbox[e][k].type = "ack" =>
                  \A l \in 1..(k - 1) : inbox[e][l].type = "ack" =>
                    inbox[e][l].writeId < inbox[e][k].writeId
            BY <1>3 DEF AcksInOrder
          <6> QED BY <4>4, <5>2, <6>1, <6>2, <6>3
        <5>3. inbox'[e][i].writeId > acked[e]
          <6>1. i - 1 \in 1..Len(inbox[e]) /\ inbox'[e][i] = inbox[e][i - 1]
            BY <4>2, <5>1
          <6> QED BY <1>3, <4>4, <6>1 DEF AcksInOrder
        <5> QED BY <5>2, <5>3
      <4>5. ASSUME NEW v \in (acked[e] + 1)..applied[e]
            PROVE  \E i \in 1..Len(inbox'[e]) :
                      inbox'[e][i].type = "ack" /\ inbox'[e][i].writeId = v
        <5>1. PICK i \in 1..Len(inbox[e]) :
                inbox[e][i].type = "ack" /\ inbox[e][i].writeId = v
          BY <1>3 DEF AcksInOrder
        <5>2. i + 1 \in 1..Len(inbox'[e])
          BY <1>1, <4>2
        <5> QED BY <4>2, <5>1, <5>2
      <4> QED BY <3>1, <4>4, <4>5 DEF AcksInOrder
    <3> QED BY <1>5, <3>1, <3>2, <3>3 DEF ClientOK
  <2> QED BY <2>1, <2>2
<1>13. ASSUME NEW d \in Devices, set(d)
       PROVE  ClientOK(e)' /\ Covers(cache'[e], cache[e])
  <2>1. CASE e # d
    BY <1>8, <1>13, <2>1 DEF set, TypeInv, TypeOK
  <2>2. CASE e = d
    <3>1. PICK w \in Writes : userWrites'[e] = Append(userWrites[e], w)
      <4>1. Head(sharedQueue[e]) \in Writes
        BY <1>13, <2>2 DEF set, TypeInv, TypeOK
      <4>2. userWrites'[e] = Append(userWrites[e], Head(sharedQueue[e]))
        BY <1>13, <2>2 DEF set, TypeInv, TypeOK
      <4> QED BY <4>1, <4>2
    <3>2. /\ inbox' = inbox /\ cache' = cache /\ server' = server
          /\ observing' = observing /\ loaded' = loaded /\ acked' = acked
          /\ acking' = acking /\ applied' = applied
      BY <1>13 DEF set
    <3>3. PathInv(T, cache[e], inbox[e], server, observing[e], loaded[e],
                  Append(userWrites[e], w), acked[e], acking[e])
      <4>1. applied[e] \in 0..Len(userWrites[e])
        BY <1>1, <1>2
      <4> QED BY <1>1, <1>2, <1>4, <3>1, <4>1, LogGrows
    <3> QED BY <1>3, <1>5, <3>1, <3>2, <3>3 DEF ClientOK
  <2> QED BY <2>1, <2>2
<1>14. ASSUME NEW d \in Devices, receive(d)
       PROVE  ClientOK(e)' /\ Covers(cache'[e], cache[e])
  <2>1. CASE e # d
    BY <1>8, <1>14, <2>1 DEF receive, ackUserWrite, TypeInv, TypeOK
  <2>2. CASE e = d
    <3> DEFINE m == inbox[e][1]
    <3>1. /\ inbox[e] # <<>> /\ ~acking[e] /\ Head(inbox[e]) = m
          /\ m \in Messages
          /\ inbox'[e] = Received(inbox[e]) /\ userWrites'[e] = userWrites[e]
          /\ applied'[e] = applied[e] /\ observing'[e] = observing[e]
          /\ server' = server
      BY <1>1, <1>14, <2>2 DEF receive, TypeInv, TypeOK, Received
    <3>2. /\ cache'[e] = Deliver(cache[e], m)
          /\ loaded'[e] <=> loaded[e] \/ m.type = "snapshot"
          /\ IF m.type = "ack" THEN acked'[e] = m.writeId /\ acking'[e]
                               ELSE acked'[e] = acked[e] /\ ~acking'[e]
          /\ acking'[e] \in BOOLEAN /\ acked'[e] \in Nat
          /\ loaded'[e] \in BOOLEAN
      <4>1. acking' \in [Devices -> BOOLEAN] /\ acked' \in [Devices -> Nat]
              /\ loaded' \in [Devices -> BOOLEAN]
        BY NextTypeInv DEF TypeInv, TypeOK
      <4> HIDE DEF m
      <4>2. CASE m.type = "ack"
        BY <1>1, <1>14, <2>2, <3>1, <4>1, <4>2
           DEF receive, ackUserWrite, TypeInv, TypeOK, Deliver
      <4>3. CASE m.type = "update"
        BY <1>1, <1>14, <2>2, <3>1, <4>1, <4>3
           DEF receive, ackUserWrite, TypeInv, TypeOK, Deliver
      <4>4. CASE m.type = "snapshot"
        BY <1>1, <1>14, <2>2, <3>1, <4>1, <4>4
           DEF receive, ackUserWrite, TypeInv, TypeOK, Deliver
      <4>5. m.type \in {"ack", "update", "snapshot"}
        BY <3>1 DEF Messages
      <4> QED BY <4>2, <4>3, <4>4, <4>5
    <3>b. PathInv(T, cache[e], inbox[e], server, observing[e], loaded[e],
                  userWrites[e], acked[e], FALSE)
      <4>1. acking[e] = FALSE
        BY <1>1, <3>1
      <4> QED BY <1>4, <4>1
    <3>c. Noted(m, loaded[e], acked[e], loaded'[e], acked'[e], acking'[e])
      BY <3>2 DEF Noted
    <3>3. /\ AcksInOrder(Received(inbox[e]), acked'[e], applied[e])
          /\ Covers(Deliver(cache[e], m), cache[e])
          /\ \E S : PathInv(S, Deliver(cache[e], m), Received(inbox[e]), server,
                            observing[e], loaded'[e], userWrites[e], acked'[e],
                            acking'[e])
      <4>1. acked'[e] \in Nat
        BY <3>2
      <4> QED BY <1>1, <1>2, <1>3, <3>1, <3>b, <3>c, <4>1, ReceiveFirst
    <3> HIDE DEF m
    <3> QED BY <3>1, <3>2, <3>3 DEF ClientOK
  <2> QED BY <2>1, <2>2
<1>15. ASSUME NEW d \in Devices, applyUserWrite(d)
       PROVE  ClientOK(e)' /\ Covers(cache'[e], cache[e])
  <2>1. CASE e # d
    BY <1>8, <1>15, <2>1 DEF applyUserWrite, TypeInv, TypeOK
  <2>2. CASE e = d
    <3>1. /\ acking[e] /\ acking'[e] = FALSE
          /\ inbox' = inbox /\ server' = server
          /\ observing' = observing /\ loaded' = loaded /\ acked' = acked
          /\ userWrites' = userWrites /\ applied' = applied
      BY <1>15, <2>2 DEF applyUserWrite, TypeInv, TypeOK
    <3>2. CASE observing[e]
      <4>1. cache'[e] = cache[e]
        BY <1>15, <2>2, <3>2 DEF applyUserWrite
      <4>2. PathInv(T, cache[e], inbox[e], server, observing[e], loaded[e],
                    userWrites[e], acked[e], acking'[e])
        BY <1>4, <3>2 DEF PathInv, NothingForgotten
      <4> QED BY <1>3, <1>5, <3>1, <4>1, <4>2 DEF ClientOK
    <3>3. CASE ~observing[e]
      <4> DEFINE a == acked[e]
      <4>1. a \in 1..Len(userWrites[e]) /\ a \in 1..applied[e]
        BY <1>1, <1>2, <3>1
      <4>2. cache'[e] = SetField(cache[e], userWrites[e][a])
        BY <1>15, <2>2, <3>3 DEF applyUserWrite, TypeInv, TypeOK
      <4>3. FieldsBefore(userWrites[e], a)
        BY <4>1 DEF OrderInv, LogOrdered, Logged, FieldsBefore
      <4>4. acking'[e] \in BOOLEAN /\ ~acking'[e]
        BY <3>1
      <4>5. HasField(server, userWrites[e][a].key, userWrites[e][a].field)
        BY <1>7, <4>1 DEF Stored
      <4> HIDE DEF a
      <4>6. /\ \E S : PathInv(S, SetField(cache[e], userWrites[e][a]), inbox[e],
                              server, observing[e], loaded[e], userWrites[e], a,
                              acking'[e])
            /\ Covers(SetField(cache[e], userWrites[e][a]), cache[e])
        <5>1. PathInv(T, cache[e], inbox[e], server, observing[e], loaded[e],
                      userWrites[e], a, acking[e])
          BY <1>4 DEF a
        <5> QED BY <1>1, <3>3, <4>1, <4>3, <4>4, <4>5, <5>1, CacheWrite
      <4> QED BY <1>3, <3>1, <4>2, <4>6 DEF ClientOK, a
    <3> QED BY <3>2, <3>3
  <2> QED BY <2>1, <2>2
<1>16. ASSUME NEW d \in Devices, reconnect(d)
       PROVE  ClientOK(e)' /\ Covers(cache'[e], cache[e])
  <2>1. CASE e # d
    BY <1>8, <1>16, <2>1 DEF reconnect, TypeInv, TypeOK
  <2>2. CASE e = d
    <3>1. /\ ~acking[e] /\ cache' = cache /\ server' = server
          /\ observing' = observing /\ loaded' = loaded /\ acked' = acked
          /\ userWrites' = userWrites /\ acking' = acking
          /\ applied'[e] = acked[e]
          /\ inbox'[e] = IF observing[e] THEN <<Snapshot(server)>> ELSE <<>>
      BY <1>16, <2>2 DEF reconnect, TypeInv, TypeOK
    <3>2. PICK off \in BOOLEAN : off = FALSE
      OBVIOUS
    <3>3. PICK S : PathInv(S, cache[e], <<>>, server, FALSE, loaded[e],
                           userWrites[e], acked[e], acking[e])
      <4>1. \E S : PathInv(S, cache[e], <<>>, server, off, loaded[e],
                           userWrites[e], acked[e], acking[e])
        BY <1>1, <1>4, <3>1, <3>2, StopListening
      <4> QED BY <3>2, <4>1
    <3>4. \E U : PathInv(U, cache[e], inbox'[e], server, observing[e],
                         loaded[e], userWrites[e], acked[e], acking[e])
      <4>1. CASE ~observing[e]
        <5>1. observing[e] = FALSE
          BY <1>1, <4>1
        <5>2. inbox'[e] = <<>>
          BY <3>1, <4>1
        <5> QED BY <3>3, <5>1, <5>2
      <4>2. CASE observing[e]
        <5>1. <<>> \in Seq(Messages) /\ Len(<<>>) = 0
          OBVIOUS
        <5>2. inbox'[e] = Answered(<<>>, server)
          BY <3>1, <4>2 DEF Answered
        <5>3. \E U : PathInv(U, cache[e], Answered(<<>>, server), server,
                             observing[e], loaded[e], userWrites[e], acked[e],
                             acking[e])
          <6>1. observing[e] = TRUE /\ acking[e] = FALSE
            BY <1>1, <3>1, <4>2
          <6>2. AcksKnown(<<>>, applied[e])
            BY <5>1 DEF AcksKnown
          <6>3. PathInv(S, cache[e], <<>>, server, FALSE, loaded[e],
                        userWrites[e], acked[e], FALSE)
            BY <3>3, <6>1
          <6>4. \E U : PathInv(U, cache[e], Answered(<<>>, server), server,
                               TRUE, loaded[e], userWrites[e], acked[e], FALSE)
            BY <1>1, <1>6, <1>7, <5>1, <6>2, <6>3, StartListening, ZenonT(30)
          <6> QED BY <6>1, <6>4
        <5> QED BY <5>2, <5>3
      <4> QED BY <4>1, <4>2
    <3>5. AcksInOrder(inbox'[e], acked[e], acked[e])
      <4>1. (acked[e] + 1)..acked[e] = {}
        BY <1>1
      <4>2. \A i \in 1..Len(inbox'[e]) : inbox'[e][i].type # "ack"
        <5>1. CASE observing[e]
          <6>1. Len(inbox'[e]) = 1 /\ inbox'[e][1] = Snapshot(server)
            BY <3>1, <5>1
          <6> QED BY <6>1 DEF Snapshot
        <5>2. CASE ~observing[e]
          BY <3>1, <5>2
        <5> QED BY <5>1, <5>2
      <4> QED BY <4>1, <4>2 DEF AcksInOrder
    <3> QED BY <1>5, <3>1, <3>4, <3>5 DEF ClientOK
  <2> QED BY <2>1, <2>2
<1>17. ASSUME NEW d \in Devices, crash(d)
       PROVE  ClientOK(e)' /\ Covers(cache'[e], cache[e])
  <2>1. CASE e # d
    BY <1>8, <1>17, <2>1 DEF crash, TypeInv, TypeOK
  <2>2. CASE e = d
    <3>1. /\ acking[e] => CrashInAck
          /\ cache' = cache /\ server' = server /\ loaded' = loaded
          /\ acked' = acked /\ userWrites' = userWrites
          /\ observing'[e] = FALSE /\ acking'[e] = FALSE
          /\ applied'[e] = acked[e] /\ inbox'[e] = <<>>
      BY <1>17, <2>2 DEF crash, TypeInv, TypeOK
    <3>2. /\ observing'[e] \in BOOLEAN /\ ~observing'[e]
          /\ acking'[e] \in BOOLEAN /\ ~acking'[e]
      BY <3>1
    <3>3. \E S : PathInv(S, cache[e], <<>>, server, observing'[e], loaded[e],
                         userWrites[e], acked[e], acking'[e])
      BY <1>1, <1>4, <3>1, <3>2, StopListening
    <3>4. AcksInOrder(inbox'[e], acked[e], acked[e])
      <4>1. (acked[e] + 1)..acked[e] = {} /\ Len(inbox'[e]) = 0
        BY <1>1, <3>1
      <4> QED BY <4>1 DEF AcksInOrder
    <3> QED BY <1>5, <3>1, <3>3, <3>4 DEF ClientOK
  <2> QED BY <2>1, <2>2
<1>18. ASSUME NEW d \in Devices, serverApply(d)
       PROVE  ClientOK(e)' /\ Covers(cache'[e], cache[e])
  <2>1. PICK v \in 1..Len(userWrites[d]), w \in Writes :
           v = applied[d] + 1 /\ w = userWrites[d][v]
    <3>1. applied[d] + 1 \in 1..Len(userWrites[d])
      BY <1>18 DEF serverApply, TypeInv, TypeOK
    <3>2. userWrites[d][applied[d] + 1] \in Writes
      BY <3>1 DEF TypeInv, TypeOK
    <3> QED BY <3>1, <3>2
  <2>2. /\ server' = SetField(server, w)
        /\ inbox'[e] = inbox[e] \o (IF observing[e] THEN <<Update(w)>> ELSE <<>>)
                                \o (IF e = d THEN <<Ack(v)>> ELSE <<>>)
        /\ applied'[e] = IF e = d THEN v ELSE applied[e]
        /\ cache' = cache /\ loaded' = loaded /\ observing' = observing
        /\ acked' = acked /\ userWrites' = userWrites /\ acking' = acking
    BY <1>18, <2>1 DEF serverApply, TypeInv, TypeOK
  <2>3. /\ SetField(server, w) \in Trees /\ Covers(SetField(server, w), server)
        /\ HasField(SetField(server, w), w.key, w.field)
        /\ UrlComplete(SetField(server, w))
    BY <1>1, <1>6, <2>2, SetFieldType, SetFieldCovers
  <2>4. PICK box \in Seq(Messages) :
           box = inbox[e] \o (IF observing[e] THEN <<Update(w)>> ELSE <<>>)
    <3>1. Update(w) \in Messages
      BY <2>1, MessageTypes
    <3>2. /\ inbox[e] \o <<Update(w)>> \in Seq(Messages)
          /\ inbox[e] \o <<>> \in Seq(Messages)
      BY <1>1, <3>1
    <3> QED BY <3>2
  <2>5. \E S : PathInv(S, cache[e], box, SetField(server, w), observing[e],
                       loaded[e], userWrites[e], acked[e], acking[e])
    <3>1. CASE observing[e]
      <4>1. box = Append(inbox[e], Update(w))
        <5>1. Update(w) \in Messages
          BY <2>1, MessageTypes
        <5> QED BY <1>1, <2>4, <3>1, <5>1
      <4>2. \E S : PathInv(S, cache[e], Sent(inbox[e], Update(w)),
                           SetField(server, w), observing[e], loaded[e],
                           userWrites[e], acked[e], acking[e])
        <5>1. observing[e] = TRUE
          BY <1>1, <3>1
        <5>2. PathInv(T, cache[e], inbox[e], server, TRUE, loaded[e],
                      userWrites[e], acked[e], acking[e])
          BY <1>4, <5>1
        <5>3. \E S : PathInv(S, cache[e], Sent(inbox[e], Update(w)),
                             SetField(server, w), TRUE, loaded[e],
                             userWrites[e], acked[e], acking[e])
          BY <1>1, <2>1, <2>3, <5>2, SendUpdate, ZenonT(30)
        <5> QED BY <5>1, <5>3
      <4> QED BY <4>1, <4>2 DEF Sent
    <3>2. CASE ~observing[e]
      <4>1. box = inbox[e]
        BY <1>1, <2>4, <3>2
      <4>2. PathInv(T, cache[e], inbox[e], SetField(server, w), observing[e],
                    loaded[e], userWrites[e], acked[e], acking[e])
        BY <1>1, <1>4, <2>3, <3>2, ServerGrows
      <4> QED BY <4>1, <4>2
    <3> QED BY <3>1, <3>2
  <2>6. /\ AcksInOrder(box, acked[e], applied[e])
        /\ AcksKnown(box, applied[e])
    <3>1. CASE ~observing[e]
      <4>1. box = inbox[e]
        BY <1>1, <2>4, <3>1
      <4> QED BY <1>2, <1>3, <4>1
    <3>2. CASE observing[e]
      <4> DEFINE n == Len(inbox[e])
      <4>1. Update(w) \in Messages /\ Update(w).type # "ack"
        BY <2>1, MessageTypes DEF Update
      <4>2. /\ Len(box) = n + 1 /\ n \in Nat
            /\ \A i \in 1..n : box[i] = inbox[e][i]
            /\ box[n + 1].type # "ack"
        BY <1>1, <2>4, <3>2, <4>1
      <4>3. ASSUME NEW i \in 1..(n + 1), box[i].type = "ack"
            PROVE  i \in 1..n
        BY <4>2, <4>3
      <4>4. ASSUME NEW i \in 1..n, NEW j \in 1..(i - 1) PROVE j \in 1..n
        BY <4>2
      <4>5. \A i \in 1..n : i \in 1..(n + 1)
        BY <4>2
      <4> HIDE DEF n
      <4>6. AcksKnown(box, applied[e])
        BY <1>2, <4>2, <4>3 DEF AcksKnown, n
      <4>7. \A i \in 1..Len(box) : box[i].type = "ack" =>
              /\ box[i].writeId > acked[e]
              /\ \A j \in 1..(i - 1) : box[j].type = "ack" =>
                   box[j].writeId < box[i].writeId
        BY <1>3, <4>2, <4>3, <4>4 DEF AcksInOrder, n
      <4>8. \A u \in (acked[e] + 1)..applied[e] :
              \E i \in 1..Len(box) : box[i].type = "ack" /\ box[i].writeId = u
        BY <1>3, <4>2, <4>5 DEF AcksInOrder, n
      <4> QED BY <4>6, <4>7, <4>8 DEF AcksInOrder
    <3> QED BY <3>1, <3>2
  <2>7. CASE e # d
    <3>1. inbox'[e] = box
      <4>1. inbox'[e] = box \o <<>>
        BY <2>2, <2>4, <2>7
      <4>2. \A s \in Seq(Messages) : s \o <<>> = s
        OBVIOUS
      <4> QED BY <2>4, <4>1, <4>2
    <3> QED BY <1>5, <2>2, <2>5, <2>6, <2>7, <3>1 DEF ClientOK
  <2>8. CASE e = d
    <3>1. Ack(v) \in Messages /\ Ack(v).type = "ack" /\ Ack(v).writeId = v
      BY <2>1, MessageTypes DEF Ack
    <3>2. inbox'[e] = Sent(box, Ack(v))
      <4>1. inbox'[e] = box \o <<Ack(v)>>
        BY <2>2, <2>4, <2>8
      <4>2. \A s \in Seq(Messages), m \in Messages : s \o <<m>> = Append(s, m)
        OBVIOUS
      <4> QED BY <2>4, <3>1, <4>1, <4>2 DEF Sent
    <3>3. \E S : PathInv(S, cache[e], Sent(box, Ack(v)), SetField(server, w),
                         observing[e], loaded[e], userWrites[e], acked[e],
                         acking[e])
      <4>1. v \in 1..Len(userWrites[e]) /\ userWrites[e][v] = w
        BY <2>1, <2>8
      <4> QED BY <1>1, <2>3, <2>5, <4>1, SendAck
    <3>4. AcksInOrder(Sent(box, Ack(v)), acked[e], v)
      <4> DEFINE n == Len(box)
                 more == Sent(box, Ack(v))
      <4>1. /\ Len(more) = n + 1 /\ n \in Nat
            /\ \A i \in 1..n : more[i] = box[i]
            /\ more[n + 1].type = "ack" /\ more[n + 1].writeId = v
        BY <3>1 DEF Sent
      <4>2. v = applied[e] + 1 /\ v > acked[e]
        BY <1>1, <1>2, <2>1, <2>8
      <4> HIDE DEF more
      <4>3. ASSUME NEW i \in 1..(n + 1), more[i].type = "ack"
            PROVE  /\ more[i].writeId > acked[e]
                   /\ \A j \in 1..(i - 1) : more[j].type = "ack" =>
                        more[j].writeId < more[i].writeId
        <5>1. \A j \in 1..(i - 1) : j \in 1..n
          BY <4>1
        <5>2. CASE i \in 1..n
          BY <2>6, <4>1, <4>3, <5>1, <5>2 DEF AcksInOrder
        <5>3. CASE i = n + 1
          <6>1. more[i].writeId = v
            BY <4>1, <5>3
          <6>2. ASSUME NEW j \in 1..(i - 1), more[j].type = "ack"
                PROVE  more[j].writeId < v
            <7>1. j \in 1..n /\ more[j] = box[j] /\ box[j].type = "ack"
              BY <4>1, <5>1, <6>2
            <7>2. box[j].writeId \in 1..applied[e]
              BY <2>6, <7>1 DEF AcksKnown
            <7> QED BY <1>1, <4>2, <7>1, <7>2
          <6> QED BY <4>2, <6>1, <6>2
        <5> QED BY <4>1, <5>2, <5>3
      <4>4. ASSUME NEW u \in (acked[e] + 1)..v
            PROVE  \E i \in 1..(n + 1) : more[i].type = "ack" /\ more[i].writeId = u
        <5>1. CASE u = v
          <6>1. n + 1 \in 1..(n + 1)
            BY <4>1
          <6> QED BY <4>1, <5>1, <6>1
        <5>2. CASE u # v
          <6>1. u \in (acked[e] + 1)..applied[e]
            BY <1>1, <4>2, <5>2
          <6>2. PICK i \in 1..n : box[i].type = "ack" /\ box[i].writeId = u
            BY <2>6, <6>1 DEF AcksInOrder
          <6>3. i \in 1..(n + 1)
            BY <4>1
          <6> QED BY <4>1, <6>2, <6>3
        <5> QED BY <5>1, <5>2
      <4> QED BY <4>1, <4>3, <4>4 DEF AcksInOrder, more
    <3> QED BY <1>5, <2>2, <2>8, <3>2, <3>3, <3>4 DEF ClientOK
  <2> QED BY <2>7, <2>8
<1> QED
  BY <1>9, <1>10, <1>11, <1>12, <1>13, <1>14, <1>15, <1>16, <1>17, <1>18
     DEF Next, Client

\* A listener whose inbox is empty has the server's tree, and has had the
\* whole of it: for any number of devices, faults and crashes, those inside
\* an acknowledgement included.
THEOREM ListenersGetCurrent == Spec => []DeliveredMeansCurrent
<1>1. TypeInv /\ ClientInv => DeliveredMeansCurrent
  <2> SUFFICES ASSUME ClientInv, NEW d \in Devices, observing[d], inbox[d] = <<>>
               PROVE  loaded[d] /\ cache[d] = server
    BY DEF DeliveredMeansCurrent
  <2>1. PICK T : PathInv(T, cache[d], <<>>, server, observing[d], loaded[d],
                         userWrites[d], acked[d], acking[d])
    BY DEF ClientInv, ClientOK
  <2>2. Len(<<>>) = 0 /\ 1..0 = {}
    OBVIOUS
  <2>3. T[0] = cache[d] /\ T[0] = server
    BY <2>1, <2>2 DEF PathInv, Path, Heard
  <2>4. loaded[d]
    BY <2>1, <2>2 DEF PathInv, Heard
  <2> QED BY <2>3, <2>4
<1> QED BY <1>1, InitTypeInv, NextTypeInv, InitOrderInv, NextOrderInv,
           InitClientInv, NextClientInv, PTL DEF Spec

-----------------------------------------------------------------------------
(* What a device shows                                                     *)

LEMMA LastPending ==
    ASSUME NEW n \in Nat, NEW S \in SUBSET (1..n), S # {}
    PROVE  \E m \in S : \A o \in S : o <= m
<1> DEFINE D == {n - i : i \in S}
<1>1. \A i \in S : i \in Nat /\ i <= n
  OBVIOUS
<1>2. D \subseteq Nat /\ D # {}
  <2>1. \A i \in S : n - i \in Nat
    BY <1>1
  <2> QED BY <2>1
<1>3. PICK m \in D : \A o \in D : ~(<<o, m>> \in OpToRel(<, Nat))
  BY <1>2, WFMin, NatLessThanWellFounded
<1>4. PICK i \in S : m = n - i
  BY <1>3
<1>5. ASSUME NEW o \in S PROVE o <= i
  <2>1. n - o \in D /\ n - o \in Nat /\ m \in Nat
    BY <1>2
  <2>2. ~(n - o < m)
    BY <1>3, <2>1 DEF OpToRel
  <2> QED BY <1>1, <1>4, <2>2
<1> QED BY <1>5

\* A device shows what is pending and what is cached.
ViewShows ==
    \A d \in Devices, k \in Keys, f \in Fields :
        HasField(View(d), k, f)
            <=> HasField(cache[d], k, f) \/ Pending(d, k, f) # {}

LEMMA ViewIsPendingOverCache == TypeOK => ViewShows
<1> SUFFICES ASSUME TypeOK, NEW d \in Devices, NEW k \in Keys, NEW f \in Fields
             PROVE  HasField(View(d), k, f)
                      <=> HasField(cache[d], k, f) \/ Pending(d, k, f) # {}
  BY DEF ViewShows
<1>1. CASE Pending(d, k, f) = {}
  BY <1>1 DEF HasField, View
<1>2. CASE Pending(d, k, f) # {}
  <2> DEFINE P == Pending(d, k, f)
             last == CHOOSE i \in P : \A j \in P : j <= i
  <2>1. userWrites[d] \in Seq(Writes) /\ P \in SUBSET (1..Len(userWrites[d]))
    BY DEF TypeOK, Pending
  <2>2. last \in P
    <3> HIDE DEF P
    <3>1. Len(userWrites[d]) \in Nat
      BY <2>1
    <3>2. \E i \in P : \A j \in P : j <= i
      BY <1>2, <2>1, <3>1, LastPending DEF P
    <3> QED BY <3>2
  <2>3. userWrites[d][last] \in Writes
    BY <2>1, <2>2
  <2>4. View(d)[k][f] = userWrites[d][last].from
    BY <1>2 DEF View
  <2> HIDE DEF last
  <2>5. View(d)[k][f] \in Detections
    BY <2>3, <2>4 DEF Writes
  <2> QED BY <1>2, <2>5, ConstantsAssumption DEF HasField
<1> QED BY <1>1, <1>2

LEMMA ViewIsPendingOverCacheNext == TypeOK' => ViewShows'
  BY ViewIsPendingOverCache, PTL

\* The disk knows every write that is not pending, and shows no url alone.
DiskKnows ==
    \A d \in Devices :
        /\ \A v \in 1..acked[d] : v # acked[d] \/ ~acking[d] =>
             HasField(cache[d], userWrites[d][v].key, userWrites[d][v].field)
        /\ UrlComplete(cache[d])

LEMMA NothingIsForgotten == ClientInv /\ ~CrashInAck => DiskKnows
<1> SUFFICES ASSUME ClientInv, ~CrashInAck, NEW d \in Devices
             PROVE  /\ \A v \in 1..acked[d] : v # acked[d] \/ ~acking[d] =>
                         HasField(cache[d], userWrites[d][v].key,
                                            userWrites[d][v].field)
                    /\ UrlComplete(cache[d])
  BY DEF DiskKnows
<1>1. PICK T : PathInv(T, cache[d], inbox[d], server, observing[d], loaded[d],
                       userWrites[d], acked[d], acking[d])
  BY DEF ClientInv, ClientOK
<1>2. T[0] = cache[d] /\ 0 \in 0..Len(inbox[d])
  BY <1>1 DEF PathInv, Path
<1> QED BY <1>1, <1>2 DEF PathInv, NothingForgotten

LEMMA NothingIsForgottenNext ==
    ASSUME ~CrashInAck
    PROVE  ClientInv' => DiskKnows'
<1>1. ClientInv => DiskKnows
  BY NothingIsForgotten
<1> QED BY <1>1, PTL

\* No record a device shows has a url and lacks another field, whether it
\* listens or not: the casts of HistoryVC find what they need.  A process
\* that dies between the two disk operations of an acknowledgement is ruled
\* out, for it does lose a field until the next snapshot.
THEOREM RecordsCastSafely ==
    ASSUME ~CrashInAck
    PROVE  Spec => []CastsAreSafe
<1>1. TypeInv /\ OrderInv /\ ClientInv => CastsAreSafe
  <2> SUFFICES ASSUME TypeInv, OrderInv, ClientInv, NEW d \in Devices,
                      NEW k \in Keys, HasField(View(d), k, "url"), NEW f \in Base
               PROVE  HasField(View(d), k, f)
    BY DEF CastsAreSafe, Complete, Base
  <2>1. f \in Fields /\ "url" \in Fields
    BY DEF Base, Fields
  <2>2. ViewShows /\ DiskKnows
    BY ViewIsPendingOverCache, NothingIsForgotten DEF TypeInv
  <2>3. CASE HasField(cache[d], k, "url")
    <3>1. HasField(cache[d], k, f)
      BY <2>2, <2>3 DEF DiskKnows, UrlComplete, Complete, Base
    <3> QED BY <2>1, <2>2, <3>1 DEF ViewShows
  <2>4. CASE Pending(d, k, "url") # {}
    <3>1. PICK i \in 1..Len(userWrites[d]) :
            userWrites[d][i].key = k /\ userWrites[d][i].field = "url"
      BY <2>4 DEF Pending
    <3>2. PICK j \in 1..(i - 1) :
            userWrites[d][j].key = k /\ userWrites[d][j].field = f
      BY <3>1 DEF OrderInv, LogOrdered, Logged
    <3>3. /\ acked[d] \in Nat /\ Len(userWrites[d]) \in Nat
          /\ j \in 1..Len(userWrites[d])
      <4>1. userWrites[d] \in Seq(Writes) /\ acked[d] \in Nat
        BY DEF TypeInv, TypeOK
      <4> QED BY <3>1, <3>2, <4>1
    <3>4. CASE j > acked[d] \/ (j = acked[d] /\ acking[d])
      <4>1. j \in Pending(d, k, f)
        BY <3>2, <3>3, <3>4 DEF Pending
      <4> QED BY <2>1, <2>2, <4>1 DEF ViewShows
    <3>5. CASE ~(j > acked[d] \/ (j = acked[d] /\ acking[d]))
      <4>1. j \in 1..acked[d] /\ (j # acked[d] \/ ~acking[d])
        BY <3>3, <3>5
      <4>2. HasField(cache[d], k, f)
        BY <2>2, <3>2, <4>1 DEF DiskKnows
      <4> QED BY <2>1, <2>2, <4>2 DEF ViewShows
    <3> QED BY <3>4, <3>5
  <2> QED BY <2>1, <2>2, <2>3, <2>4 DEF ViewShows
<1> QED BY <1>1, InitTypeInv, NextTypeInv, InitOrderInv, NextOrderInv,
           InitClientInv, NextClientInv, PTL DEF Spec

\* What is written on disk stays written.
LEMMA LogKept ==
    ASSUME TypeOK, [Next]_vars, NEW d \in Devices,
           NEW i \in 1..Len(userWrites[d])
    PROVE  i \in 1..Len(userWrites'[d]) /\ userWrites'[d][i] = userWrites[d][i]
<1>1. ASSUME NEW e \in Devices, set(e)
      PROVE  i \in 1..Len(userWrites'[d]) /\ userWrites'[d][i] = userWrites[d][i]
  <2>1. userWrites[d] \in Seq(Writes)
    BY DEF TypeOK
  <2>2. PICK w \in Writes :
          userWrites'[d] = Append(userWrites[d], w)
            \/ userWrites'[d] = userWrites[d]
    <3>1. Head(sharedQueue[e]) \in Writes
      BY <1>1, SMTT(30) DEF set, TypeOK
    <3>2. userWrites'[d] = IF d = e
                             THEN Append(userWrites[d], Head(sharedQueue[e]))
                             ELSE userWrites[d]
      BY <1>1 DEF set, TypeOK
    <3> QED BY <3>1, <3>2
  <2> QED BY <2>1, <2>2
<1>2. CASE UNCHANGED userWrites
  BY <1>2
<1>3. (\E e \in Devices : set(e)) \/ UNCHANGED userWrites
  BY DEF Next, Uploading, Client, addDetection, storageCommit, putDataCompleted,
         downloadURLCompleted, completedWithError, observe, receive,
         applyUserWrite, ackUserWrite, reconnect, serverApply, crash, restart,
         vars, diskVars
<1> QED BY <1>1, <1>2, <1>3

\* What a device shows, cached or pending, it shows after every step: the
\* acknowledgement of a write, a reconnection, a crash and a restart.  A
\* crash between the two disk operations of an acknowledgement is ruled out.
THEOREM ShownStaysShown ==
    ASSUME ~CrashInAck
    PROVE  Spec => ViewNeverShrinks
<1>1. TypeInv /\ OrderInv /\ ClientInv /\ [Next]_vars =>
        [\A d \in Devices : loaded[d] =>
           \A k \in Keys, f \in Fields :
              HasField(View(d), k, f) => HasField(View(d)', k, f)]_vars
  <2> SUFFICES ASSUME TypeInv, OrderInv, ClientInv, [Next]_vars,
                      NEW d \in Devices, NEW k \in Keys, NEW f \in Fields,
                      HasField(View(d), k, f)
               PROVE  HasField(View(d)', k, f)
    OBVIOUS
  <2>1. ViewShows /\ ViewShows'
    BY NextTypeInv, ViewIsPendingOverCache, ViewIsPendingOverCacheNext
       DEF TypeInv
  <2>2. DiskKnows' /\ Covers(cache'[d], cache[d])
    BY NextClientInv, NothingIsForgottenNext
  <2>3. HasField(cache'[d], k, f) \/ Pending(d, k, f)' # {}
          => HasField(View(d)', k, f)
    BY <2>1 DEF ViewShows, HasField
  <2>4. CASE HasField(cache[d], k, f)
    BY <2>2, <2>3, <2>4 DEF Covers
  <2>5. CASE Pending(d, k, f) # {}
    <3>1. PICK i \in 1..Len(userWrites[d]) :
            userWrites[d][i].key = k /\ userWrites[d][i].field = f
      BY <2>5 DEF Pending
    <3>2. /\ i \in 1..Len(userWrites'[d])
          /\ userWrites'[d][i].key = k /\ userWrites'[d][i].field = f
      BY <3>1, LogKept DEF TypeInv
    <3>3. acked'[d] \in Nat
      BY NextTypeInv DEF TypeInv, TypeOK
    <3>4. CASE i > acked'[d] \/ (i = acked'[d] /\ acking'[d])
      <4>1. i \in Pending(d, k, f)'
        BY <3>2, <3>4 DEF Pending
      <4> QED BY <2>3, <4>1
    <3>5. CASE ~(i > acked'[d] \/ (i = acked'[d] /\ acking'[d]))
      <4>1. i \in 1..acked'[d] /\ (i # acked'[d] \/ ~acking'[d])
        BY <3>1, <3>3, <3>5
      <4>2. HasField(cache'[d], k, f)
        BY <2>2, <3>2, <4>1 DEF DiskKnows, HasField
      <4> QED BY <2>3, <4>2
    <3> QED BY <3>4, <3>5
  <2> QED BY <2>1, <2>4, <2>5 DEF ViewShows
<1> QED BY <1>1, InitTypeInv, NextTypeInv, InitOrderInv, NextOrderInv,
           InitClientInv, NextClientInv, PTL DEF Spec, ViewNeverShrinks
=============================================================================
