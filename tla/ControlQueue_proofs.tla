------------------------- MODULE ControlQueue_proofs ------------------------
(***************************************************************************)
(* Proofs about the /gwctl command channel, for every set of threads,       *)
(* bases, devices and requests, with crashes, failed saves, failed sends    *)
(* and overlapping polls: no request enters a queue again once its id is    *)
(* saved; a base receives nothing twice but what a crash caught unsaved,    *)
(* and nothing meant for another base; and, if its polls do not overlap,    *)
(* everything in order, as from a mailbox.                                  *)
(*                                                                          *)
(* What a base receives rests, on top of CoreInv, on this: ids that are out *)
(* are remembered (PlacedIsRemembered), every request waits once            *)
(* (SourceInv), so each turn of the loop enqueues an id that no queue,      *)
(* answer or base holds (OnceInv), for bases its routing allows (RouteInv). *)
(* What is remembered of a source came first in it (TurnInv), so what is    *)
(* enqueued follows all that is out (OrderInv).                             *)
(***************************************************************************)
EXTENDS ControlQueue, SequenceTheorems, TLAPS

InRefresh(t) == pc[t] \in {"enqueue", "mark", "save"}

\* command_lock is held by the thread inside the refresh, and only then.
LockInv == \A t \in Thread : InRefresh(t) <=> lock = t

\* A thread that pops or sends serves a base.
ClientInv == \A t \in Thread : pc[t] \in {"pop", "send"} => client[t] \in Peer

\* The locals of the refresh in hand.
BatchInv ==
    /\ lock = None => batch = <<>>
    /\ \A t \in Thread :
         /\ pc[t] = "enqueue" => pos \in 1..Len(batch)
         /\ pc[t] \in {"mark", "save"} => pos = Len(batch) + 1
         /\ pc[t] = "save" => Ids(batch) \subseteq handled

\* Neither the disk nor a document on its way there is ahead of the memory.
DiskInv ==
    /\ disk.handled \subseteq handled
    /\ \A r \in Recorder : snap[r].handled \subseteq handled

CoreInv == TypeOK /\ LockInv /\ ClientInv /\ BatchInv /\ DiskInv

-----------------------------------------------------------------------------
LEMMA IdsAppend ==
    ASSUME NEW S, NEW s \in Seq(S), NEW e \in S
    PROVE  Ids(Append(s, e)) = Ids(s) \cup {e}
<1>1. /\ Len(Append(s, e)) = Len(s) + 1
      /\ \A n \in 1..Len(s) : Append(s, e)[n] = s[n]
      /\ Append(s, e)[Len(s) + 1] = e
  BY AppendProperties
<1>2. DOMAIN Append(s, e) = 1..(Len(s) + 1) /\ DOMAIN s = 1..Len(s) /\ Len(s) \in Nat
  BY <1>1, LenProperties, AppendProperties
<1>. QED  BY <1>1, <1>2 DEF Ids

LEMMA IdsConcat ==
    ASSUME NEW S, NEW s \in Seq(S), NEW u \in Seq(S)
    PROVE  Ids(s \o u) = Ids(s) \cup Ids(u)
<1>1. Range(s \o u) = Range(s) \cup Range(u)
  BY RangeConcatenation
<1>2. Range(s) = Ids(s) /\ Range(u) = Ids(u) /\ Range(s \o u) = Ids(s \o u)
  BY DEF Ids, Range
<1>. QED  BY <1>1, <1>2

LEMMA IdsInSet ==
    ASSUME NEW S, NEW s \in Seq(S)
    PROVE  Ids(s) \subseteq S
  BY ElementOfSeq, LenProperties DEF Ids

LEMMA IdsEmpty == Ids(<<>>) = {}
  BY DEF Ids

\* The saved document, and the empty one, are documents.
LEMMA DocumentsTyped ==
    /\ NoDocument \in Document /\ NoDocument.handled = {}
    /\ TypeOK => Memory \in Document /\ Memory.handled = handled
  BY DEF NoDocument, Document, Memory, TypeOK

-----------------------------------------------------------------------------
LEMMA CoreInit ==
    ASSUME ControlQueueAssumption
    PROVE  Init => CoreInv
  BY DocumentsTyped
  DEF ControlQueueAssumption, Init, CoreInv, TypeOK, LockInv, ClientInv, BatchInv,
      DiskInv, InRefresh

\* Each action preserves the types, the lock discipline and the disk bound.
LEMMA CoreStep ==
    ASSUME ControlQueueAssumption, CoreInv, [Next]_vars
    PROVE  CoreInv'
<1>. USE ControlQueueAssumption DEF CoreInv
<1>. USE DEF requestVars, recordVars, threadVars, gatewayVars
<1>1. CASE \E i \in FileId : FileRequest(i)
  BY <1>1 DEF FileRequest, TypeOK, LockInv, ClientInv, BatchInv, DiskInv, InRefresh, Ids
<1>2. CASE \E i \in MqttId : MqttRequest(i)
  BY <1>2 DEF MqttRequest, TypeOK, LockInv, ClientInv, BatchInv, DiskInv, InRefresh, Ids
<1>3. ASSUME NEW r \in Recorder, NEW p \in Peer, Learn(r, p) PROVE CoreInv'
  BY <1>3 DEF Learn, Due, TypeOK, LockInv, ClientInv, BatchInv, DiskInv, InRefresh, Ids
<1>4. ASSUME NEW r \in Recorder, NEW d \in Device, NEW p \in keys \cup {None},
             DeviceMoves(r, d, p)
      PROVE  CoreInv'
  BY <1>4 DEF DeviceMoves, Due, TypeOK, LockInv, ClientInv, BatchInv, DiskInv, InRefresh, Ids
<1>5. ASSUME NEW r \in Recorder, RecordBuild(r) PROVE CoreInv'
  BY <1>5, DocumentsTyped
  DEF RecordBuild, TypeOK, LockInv, ClientInv, BatchInv, DiskInv, InRefresh, Ids
<1>6. ASSUME NEW r \in Recorder, RecordWrite(r) PROVE CoreInv'
  BY <1>6, DocumentsTyped
  DEF RecordWrite, TypeOK, LockInv, ClientInv, BatchInv, DiskInv, InRefresh, Ids
<1>7. ASSUME NEW t \in Thread, EventBegin(t) PROVE CoreInv'
  BY <1>7 DEF EventBegin, TypeOK, LockInv, ClientInv, BatchInv, DiskInv, InRefresh, Ids
<1>8. ASSUME NEW t \in Thread, NEW p \in Peer, PollBegin(t, p) PROVE CoreInv'
  BY <1>8 DEF PollBegin, TypeOK, LockInv, ClientInv, BatchInv, DiskInv, InRefresh, Ids
<1>9. ASSUME NEW t \in Thread, RefreshRaises(t) PROVE CoreInv'
  BY <1>9 DEF RefreshRaises, AfterRefresh, TypeOK, LockInv, ClientInv, BatchInv, DiskInv,
              InRefresh, Ids
<1>10. ASSUME NEW t \in Thread, RefreshReads(t) PROVE CoreInv'
  <2>1. file \o mqtt \in Seq(Id) /\ (Fresh(file \o mqtt) # {} => Len(file \o mqtt) >= 1)
    <3>1. file \in Seq(Id) /\ mqtt \in Seq(Id)
      BY DEF TypeOK, Id
    <3>2. file \o mqtt \in Seq(Id)
      BY <3>1, ConcatProperties
    <3>3. ASSUME Fresh(file \o mqtt) # {} PROVE Len(file \o mqtt) >= 1
      <4>1. DOMAIN (file \o mqtt) # {}
        BY <3>3 DEF Fresh, Ids
      <4>. QED  BY <4>1, <3>2, LenProperties
    <3>. QED  BY <3>2, <3>3
  <2>2. TypeOK'
    <3>1. CASE Fresh(file \o mqtt) = {}
      <4>1. pc' = [pc EXCEPT ![t] = AfterRefresh(t)] /\ UNCHANGED <<lock, batch, pos>>
        BY <1>10, <3>1 DEF RefreshReads
      <4>. QED  BY <4>1, <1>10 DEF RefreshReads, AfterRefresh, TypeOK
    <3>2. CASE Fresh(file \o mqtt) # {}
      <4>1. /\ pc' = [pc EXCEPT ![t] = "enqueue"]
            /\ lock' = t /\ batch' = file \o mqtt /\ pos' = 1
        BY <1>10, <3>2 DEF RefreshReads
      <4>. QED  BY <4>1, <2>1, <1>10 DEF RefreshReads, TypeOK
    <3>. QED  BY <3>1, <3>2
  <2>3. LockInv' /\ ClientInv' /\ DiskInv'
    BY <1>10 DEF RefreshReads, AfterRefresh, TypeOK, LockInv, ClientInv, DiskInv, InRefresh
  <2>4. BatchInv'
    BY <1>10, <2>1 DEF RefreshReads, AfterRefresh, TypeOK, LockInv, BatchInv, InRefresh
  <2>. QED  BY <2>2, <2>3, <2>4
<1>11. ASSUME NEW t \in Thread, Enqueue(t) PROVE CoreInv'
  <2>1. batch[pos] \in Id
    BY <1>11, ElementOfSeq DEF Enqueue, BatchInv, TypeOK
  <2>2. TypeOK'
    BY <1>11, <2>1 DEF Enqueue, TypeOK
  <2>3. LockInv' /\ ClientInv' /\ DiskInv'
    BY <1>11 DEF Enqueue, TypeOK, LockInv, ClientInv, DiskInv, InRefresh
  <2>4. BatchInv'
    BY <1>11, LenProperties DEF Enqueue, TypeOK, LockInv, BatchInv, InRefresh
  <2>. QED  BY <2>2, <2>3, <2>4
<1>12. ASSUME NEW t \in Thread, Mark(t) PROVE CoreInv'
  <2>1. Ids(batch) \subseteq Id
    BY IdsInSet DEF TypeOK
  <2>. QED
    BY <1>12, <2>1 DEF Mark, TypeOK, LockInv, ClientInv, BatchInv, DiskInv, InRefresh, Ids
<1>13. ASSUME NEW t \in Thread, Save(t) PROVE CoreInv'
  <2>1. disk' \in Document /\ disk'.handled \subseteq handled /\ faults' \in 0..MaxFaults
    BY <1>13, DocumentsTyped DEF Save, TypeOK, DiskInv
  <2>2. TypeOK'
    BY <1>13, <2>1 DEF Save, AfterRefresh, TypeOK
  <2>3. LockInv' /\ ClientInv' /\ DiskInv'
    BY <1>13, <2>1 DEF Save, AfterRefresh, TypeOK, LockInv, ClientInv, DiskInv, InRefresh
  <2>4. BatchInv'
    BY <1>13 DEF Save, AfterRefresh, TypeOK, LockInv, BatchInv, InRefresh
  <2>. QED  BY <2>2, <2>3, <2>4
<1>14. ASSUME NEW t \in Thread, Pop(t) PROVE CoreInv'
  BY <1>14 DEF Pop, TypeOK, LockInv, ClientInv, BatchInv, DiskInv, InRefresh, Ids
<1>15. ASSUME NEW t \in Thread, Send(t) PROVE CoreInv'
  <2>1. client[t] \in Peer /\ got[client[t]] \o out[t] \in Seq(Id)
    BY <1>15, ConcatProperties DEF Send, ClientInv, TypeOK
  <2>2. got' \in [Peer -> Seq(Id)] /\ out' \in [Thread -> Seq(Id)] /\ faults' \in 0..MaxFaults
    <3>1. got' = [got EXCEPT ![client[t]] = @ \o out[t]] \/ got' = got
      BY <1>15 DEF Send
    <3>2. [got EXCEPT ![client[t]] = @ \o out[t]] \in [Peer -> Seq(Id)]
      BY <2>1 DEF TypeOK
    <3>3. out' \in [Thread -> Seq(Id)]
      BY <1>15 DEF Send, TypeOK
    <3>4. faults' \in 0..MaxFaults
      BY <1>15 DEF Send, TypeOK
    <3>. QED  BY <3>1, <3>2, <3>3, <3>4 DEF TypeOK
  <2>3. TypeOK'
    BY <1>15, <2>2 DEF Send, TypeOK
  <2>. QED
    BY <1>15, <2>3 DEF Send, TypeOK, LockInv, ClientInv, BatchInv, DiskInv, InRefresh, Ids
<1>16. CASE Crash
  <2>1. Placed \subseteq Id
    <3>1. /\ \A p \in Peer : Ids(queue[p]) \subseteq Id /\ Ids(got[p]) \subseteq Id
          /\ \A t \in Thread : Ids(out[t]) \subseteq Id
      BY IdsInSet DEF TypeOK
    <3>2. UNION {Ids(queue[p]) \cup Ids(got[p]) : p \in Peer} \subseteq Id
      BY <3>1
    <3>3. UNION {Ids(out[t]) : t \in Thread} \subseteq Id
      BY <3>1
    <3>. QED  BY <3>2, <3>3 DEF Placed
  <2>2. TypeOK'
    BY <1>16, <2>1, DocumentsTyped DEF Crash, TypeOK, Document
  <2>3. LockInv' /\ ClientInv' /\ BatchInv' /\ DiskInv'
    BY <1>16, DocumentsTyped
    DEF Crash, TypeOK, LockInv, ClientInv, BatchInv, DiskInv, InRefresh
  <2>. QED  BY <2>2, <2>3
<1>17. CASE UNCHANGED vars
  BY <1>17 DEF vars, TypeOK, LockInv, ClientInv, BatchInv, DiskInv, InRefresh, Ids
<1>. QED
  BY <1>1, <1>2, <1>3, <1>4, <1>5, <1>6, <1>7, <1>8, <1>9, <1>10, <1>11, <1>12, <1>13,
     <1>14, <1>15, <1>16, <1>17
  DEF Next, Requests, Record, Step

\* The variables keep their types, for any number of threads, bases and requests.
THEOREM TypeCorrect == Spec => []TypeOK
<1>1. Init => CoreInv
  BY CoreInit, ControlQueueAssumption
<1>2. CoreInv /\ [Next]_vars => CoreInv'
  BY CoreStep, ControlQueueAssumption
<1>3. CoreInv => TypeOK
  BY DEF CoreInv
<1>. QED  BY <1>1, <1>2, <1>3, PTL DEF Spec

\* The inductive invariant: types, command_lock's holder, the locals of the refresh, and
\* no document on disk or on its way there ahead of the memory.
THEOREM CoreInvariance == Spec => []CoreInv
<1>1. Init => CoreInv
  BY CoreInit, ControlQueueAssumption
<1>2. CoreInv /\ [Next]_vars => CoreInv'
  BY CoreStep, ControlQueueAssumption
<1>. QED  BY <1>1, <1>2, PTL DEF Spec

-----------------------------------------------------------------------------
\* Only Enqueue puts a request into a queue, and none that is remembered.
LEMMA OnlyNewEnqueued ==
    ASSUME ControlQueueAssumption, CoreInv, [Next]_vars,
           NEW p \in Peer, NEW i \in handled, i \in Ids(queue'[p])
    PROVE  i \in Ids(queue[p])
<1>. USE ControlQueueAssumption DEF CoreInv, requestVars, recordVars, threadVars, gatewayVars
<1>1. ASSUME NEW t \in Thread, Enqueue(t) PROVE i \in Ids(queue[p])
  <2>1. batch[pos] \in Id
    BY <1>1, ElementOfSeq DEF Enqueue, BatchInv, TypeOK
  <2>2. queue'[p] = queue[p] \/ (batch[pos] # i /\ queue'[p] = Append(queue[p], batch[pos]))
    BY <1>1 DEF Enqueue, TypeOK
  <2>3. Ids(Append(queue[p], batch[pos])) = Ids(queue[p]) \cup {batch[pos]}
    BY <2>1, IdsAppend DEF TypeOK
  <2>. QED  BY <2>2, <2>3
<1>2. ASSUME NEW t \in Thread, Pop(t) PROVE i \in Ids(queue[p])
  <2>1. queue'[p] = queue[p] \/ queue'[p] = <<>>
    BY <1>2 DEF Pop, TypeOK, ClientInv
  <2>. QED  BY <2>1, IdsEmpty
<1>3. CASE Crash
  BY <1>3, IdsEmpty DEF Crash
<1>4. CASE UNCHANGED queue
  BY <1>4
<1>. QED
  BY <1>1, <1>2, <1>3, <1>4
  DEF Next, Requests, Record, Step, FileRequest, MqttRequest, Learn, DeviceMoves,
      RecordBuild, RecordWrite, EventBegin, PollBegin, RefreshRaises, RefreshReads, Mark,
      Save, Send, vars

\* A request whose id is on disk never enters a queue again.
THEOREM NeverQueuedAgain == Spec => SavedNeverQueuedAgain
<1>1. ASSUME CoreInv, [Next]_vars
      PROVE  [\A p \in Peer : \A i \in disk.handled :
                 i \in Ids(queue'[p]) => i \in Ids(queue[p])]_vars
  BY <1>1, OnlyNewEnqueued, ControlQueueAssumption DEF CoreInv, DiskInv
<1>. QED
  BY <1>1, CoreInvariance, PTL DEF Spec, SavedNeverQueuedAgain

-----------------------------------------------------------------------------
(* What a base receives *)

\* Ids of the batch whose turn is over.
Turned == {batch[n] : n \in {k \in DOMAIN batch : k < pos}}

\* PlacedIsRemembered, place by place.
LEMMA PlacedParts ==
    PlacedIsRemembered <=>
        /\ \A p \in Peer : /\ Ids(queue[p]) \subseteq handled \cup unsaved \cup Turned
                           /\ Ids(got[p]) \subseteq handled \cup unsaved \cup Turned
        /\ \A t \in Thread : Ids(out[t]) \subseteq handled \cup unsaved \cup Turned
<1>. DEFINE R == handled \cup unsaved \cup Turned
<1>1. Placed \subseteq R <=>
        /\ \A p \in Peer : Ids(queue[p]) \subseteq R /\ Ids(got[p]) \subseteq R
        /\ \A t \in Thread : Ids(out[t]) \subseteq R
  <2>. HIDE DEF R
  <2>. QED  BY DEF Placed
<1>. QED  BY <1>1 DEF PlacedIsRemembered, Turned

LEMMA PlacedInit == Init => PlacedIsRemembered
  BY PlacedParts, IdsEmpty DEF Init

LEMMA PlacedStep ==
    ASSUME ControlQueueAssumption, CoreInv, PlacedIsRemembered, [Next]_vars
    PROVE  PlacedIsRemembered'
<1>. DEFINE R == handled \cup unsaved \cup Turned
<1>. USE ControlQueueAssumption DEF CoreInv
<1>. USE DEF requestVars, recordVars, threadVars, gatewayVars
<1>0. /\ \A p \in Peer : Ids(queue[p]) \subseteq R /\ Ids(got[p]) \subseteq R
      /\ \A t \in Thread : Ids(out[t]) \subseteq R
  BY PlacedParts
<1>p. (\A p \in Peer : Ids(queue'[p]) \subseteq R' /\ Ids(got'[p]) \subseteq R')
      /\ (\A t \in Thread : Ids(out'[t]) \subseteq R')
      => PlacedIsRemembered'
  <2>1. Placed' \subseteq R' => PlacedIsRemembered'
    BY DEF PlacedIsRemembered, Turned
  <2>. HIDE DEF R
  <2>. QED  BY <2>1 DEF Placed, Ids
<1>1. ASSUME UNCHANGED <<queue, out, got>>, R \subseteq R' PROVE PlacedIsRemembered'
  <2>. HIDE DEF R
  <2>. QED  BY <1>0, <1>1, <1>p
<1>2. ASSUME UNCHANGED <<queue, out, got, handled, unsaved, batch, pos>>
      PROVE  PlacedIsRemembered'
  BY <1>1, <1>2 DEF Turned
<1>3. ASSUME NEW t \in Thread, RefreshReads(t) PROVE PlacedIsRemembered'
  <2>1. batch = <<>>
    BY <1>3 DEF RefreshReads, BatchInv
  <2>2. Turned = {}
    BY <2>1 DEF Turned
  <2>. QED  BY <1>1, <1>3, <2>2 DEF RefreshReads
<1>4. ASSUME NEW t \in Thread, Enqueue(t) PROVE PlacedIsRemembered'
  <2>1. pos \in DOMAIN batch /\ batch[pos] \in Id /\ batch' = batch /\ pos' = pos + 1 /\ pos \in Nat
    BY <1>4, ElementOfSeq, LenProperties DEF Enqueue, BatchInv, TypeOK
  <2>2. Turned \subseteq Turned' /\ batch[pos] \in Turned'
    BY <2>1, LenProperties DEF Turned, TypeOK
  <2>3. R \subseteq R' /\ batch[pos] \in R'
    BY <1>4, <2>2 DEF Enqueue
  <2>4. ASSUME NEW p \in Peer PROVE Ids(queue'[p]) \subseteq R'
    <3>1. queue'[p] = queue[p] \/ queue'[p] = Append(queue[p], batch[pos])
      BY <1>4 DEF Enqueue
    <3>2. Ids(Append(queue[p], batch[pos])) = Ids(queue[p]) \cup {batch[pos]}
      BY <2>1, IdsAppend DEF TypeOK
    <3>3. Ids(queue[p]) \subseteq R
      BY <1>0
    <3>. HIDE DEF R
    <3>4. CASE queue'[p] = queue[p]
      BY <2>3, <3>3, <3>4
    <3>5. CASE queue'[p] = Append(queue[p], batch[pos])
      BY <2>3, <3>2, <3>3, <3>5
    <3>. QED  BY <3>1, <3>4, <3>5
  <2>5. /\ \A p \in Peer : Ids(got'[p]) \subseteq R'
        /\ \A u \in Thread : Ids(out'[u]) \subseteq R'
    <3>1. got' = got /\ out' = out
      BY <1>4 DEF Enqueue
    <3>. HIDE DEF R
    <3>. QED  BY <1>0, <2>3, <3>1
  <2>. QED  BY <2>4, <2>5, <1>p
<1>5. ASSUME NEW t \in Thread, Mark(t) PROVE PlacedIsRemembered'
  BY <1>1, <1>5 DEF Mark, Turned
<1>6. ASSUME NEW t \in Thread, Save(t) PROVE PlacedIsRemembered'
  <2>1. Turned \subseteq handled
    BY <1>6 DEF Save, BatchInv, Turned, Ids
  <2>. QED  BY <1>1, <1>6, <2>1 DEF Save
<1>7. ASSUME NEW t \in Thread, Pop(t) PROVE PlacedIsRemembered'
  <2>1. R' = R /\ client[t] \in Peer
    BY <1>7 DEF Pop, Turned, ClientInv
  <2>2. \A p \in Peer : Ids(queue'[p]) \subseteq R
    <3>1. \A p \in Peer : queue'[p] = queue[p] \/ queue'[p] = <<>>
      BY <1>7, <2>1 DEF Pop, TypeOK
    <3>. HIDE DEF R
    <3>. QED  BY <1>0, <3>1, IdsEmpty
  <2>3. \A u \in Thread : Ids(out'[u]) \subseteq R
    <3>1. \A u \in Thread : out'[u] = out[u] \/ out'[u] = queue[client[t]]
      BY <1>7, <2>1 DEF Pop, TypeOK
    <3>. HIDE DEF R
    <3>. QED  BY <1>0, <2>1, <3>1
  <2>4. \A p \in Peer : Ids(got'[p]) \subseteq R
    BY <1>0, <1>7 DEF Pop
  <2>. QED  BY <2>1, <2>2, <2>3, <2>4, <1>p
<1>8. ASSUME NEW t \in Thread, Send(t) PROVE PlacedIsRemembered'
  <2>1. R' = R /\ client[t] \in Peer
    BY <1>8 DEF Send, Turned, ClientInv
  <2>2. \A p \in Peer : Ids(queue'[p]) \subseteq R
    BY <1>0, <1>8 DEF Send
  <2>3. \A u \in Thread : Ids(out'[u]) \subseteq R
    <3>1. \A u \in Thread : out'[u] = out[u] \/ out'[u] = <<>>
      BY <1>8 DEF Send, TypeOK
    <3>. HIDE DEF R
    <3>. QED  BY <1>0, <3>1, IdsEmpty
  <2>4. \A p \in Peer : Ids(got'[p]) \subseteq R
    <3>1. \A p \in Peer : got'[p] = got[p] \/ got'[p] = got[p] \o out[t]
      BY <1>8, <2>1 DEF Send, TypeOK
    <3>2. \A p \in Peer : Ids(got[p] \o out[t]) = Ids(got[p]) \cup Ids(out[t])
      BY IdsConcat DEF TypeOK
    <3>. HIDE DEF R
    <3>. QED  BY <1>0, <3>1, <3>2
  <2>. QED  BY <2>1, <2>2, <2>3, <2>4, <1>p
<1>9. CASE Crash
  <2>1. \A p \in Peer : Ids(got[p]) \subseteq Placed
    BY DEF Placed
  <2>2. Placed \subseteq R'
    BY <1>9 DEF Crash
  <2>3. \A p \in Peer : Ids(queue'[p]) \subseteq R' /\ Ids(got'[p]) \subseteq R'
    <3>1. \A p \in Peer : queue'[p] = <<>> /\ got'[p] = got[p]
      BY <1>9 DEF Crash
    <3>. HIDE DEF R
    <3>. QED  BY <2>1, <2>2, <3>1, IdsEmpty
  <2>4. \A u \in Thread : Ids(out'[u]) \subseteq R'
    BY <1>9, IdsEmpty DEF Crash
  <2>. QED  BY <2>3, <2>4, <1>p
<1>. QED
  BY <1>2, <1>3, <1>4, <1>5, <1>6, <1>7, <1>8, <1>9
  DEF Next, Requests, Record, Step, FileRequest, MqttRequest, Learn, DeviceMoves,
      RecordBuild, RecordWrite, EventBegin, PollBegin, RefreshRaises, vars

\* Outside a refresh every id that is out is a remembered one.
THEOREM PlacedRemembered == Spec => []PlacedIsRemembered
<1>1. Init => PlacedIsRemembered
  BY PlacedInit
<1>2. PlacedIsRemembered /\ CoreInv /\ [Next]_vars => PlacedIsRemembered'
  BY PlacedStep, ControlQueueAssumption
<1>. QED  BY <1>1, <1>2, CoreInvariance, PTL DEF Spec

-----------------------------------------------------------------------------
\* No id but those of U is in s twice.
Once(s, U) == \A m, n \in DOMAIN s : s[m] = s[n] /\ s[m] \notin U => m = n

LEMMA OnceEmpty == \A U : Once(<<>>, U)
  BY DEF Once

LEMMA OnceMore ==
    ASSUME NEW s, NEW U, NEW V, U \subseteq V, Once(s, U)
    PROVE  Once(s, V)
  BY DEF Once

LEMMA OnceAppend ==
    ASSUME NEW S, NEW s \in Seq(S), NEW e \in S, NEW U, Once(s, U), e \in Ids(s) => e \in U
    PROVE  Once(Append(s, e), U)
<1>1. /\ Len(Append(s, e)) = Len(s) + 1
      /\ \A n \in 1..Len(s) : Append(s, e)[n] = s[n]
      /\ Append(s, e)[Len(s) + 1] = e
  BY AppendProperties
<1>2. DOMAIN Append(s, e) = 1..(Len(s) + 1) /\ DOMAIN s = 1..Len(s) /\ Len(s) \in Nat
  BY <1>1, LenProperties, AppendProperties
<1>. QED  BY <1>1, <1>2 DEF Once, Ids

LEMMA OnceConcat ==
    ASSUME NEW S, NEW s \in Seq(S), NEW u \in Seq(S), NEW U, Once(s, U), Once(u, U),
           Ids(s) \cap Ids(u) \subseteq U
    PROVE  Once(s \o u, U)
<1>1. /\ Len(s \o u) = Len(s) + Len(u)
      /\ \A n \in 1..(Len(s) + Len(u)) :
            (s \o u)[n] = IF n <= Len(s) THEN s[n] ELSE u[n - Len(s)]
  BY ConcatProperties
<1>2. /\ DOMAIN (s \o u) = 1..(Len(s) + Len(u))
      /\ DOMAIN s = 1..Len(s) /\ DOMAIN u = 1..Len(u)
      /\ Len(s) \in Nat /\ Len(u) \in Nat
  BY <1>1, LenProperties, ConcatProperties
<1>3. SUFFICES ASSUME NEW m \in DOMAIN (s \o u), NEW n \in DOMAIN (s \o u),
                      (s \o u)[m] = (s \o u)[n], (s \o u)[m] \notin U
               PROVE  m = n
  BY DEF Once
<1>4. CASE m <= Len(s) /\ n <= Len(s)
  BY <1>1, <1>2, <1>3, <1>4 DEF Once
<1>5. CASE m > Len(s) /\ n > Len(s)
  <2>1. m - Len(s) \in DOMAIN u /\ n - Len(s) \in DOMAIN u
    BY <1>2, <1>5
  <2>2. u[m - Len(s)] = u[n - Len(s)] /\ u[m - Len(s)] \notin U
    BY <1>1, <1>2, <1>3, <1>5
  <2>3. m - Len(s) = n - Len(s)
    BY <2>1, <2>2 DEF Once
  <2>. QED  BY <1>2, <2>3
<1>6. CASE m <= Len(s) /\ n > Len(s)
  <2>1. m \in DOMAIN s /\ n - Len(s) \in DOMAIN u
    BY <1>2, <1>6
  <2>2. s[m] = u[n - Len(s)] /\ s[m] \notin U
    BY <1>1, <1>2, <1>3, <1>6
  <2>. QED  BY <2>1, <2>2 DEF Ids
<1>7. CASE m > Len(s) /\ n <= Len(s)
  <2>1. n \in DOMAIN s /\ m - Len(s) \in DOMAIN u
    BY <1>2, <1>7
  <2>2. s[n] = u[m - Len(s)] /\ s[n] \notin U
    BY <1>1, <1>2, <1>3, <1>7
  <2>. QED  BY <2>1, <2>2 DEF Ids
<1>. QED  BY <1>2, <1>4, <1>5, <1>6, <1>7

-----------------------------------------------------------------------------
\* Every request waits once: in the file, among those of MQTT, in a batch.
SourceInv ==
    /\ Once(file, {}) /\ Once(mqtt, {}) /\ Once(batch, {})
    /\ Ids(mqtt) \subseteq Ids(issued)

LEMMA SourceInit == Init => SourceInv
  BY OnceEmpty, IdsEmpty DEF Init, SourceInv

LEMMA SourceStep ==
    ASSUME ControlQueueAssumption, CoreInv, SourceInv, [Next]_vars
    PROVE  SourceInv'
<1>. USE ControlQueueAssumption DEF CoreInv
<1>. USE DEF requestVars, recordVars, threadVars, gatewayVars
<1>1. CASE UNCHANGED <<file, mqtt, issued, batch>>
  BY <1>1 DEF SourceInv, Once, Ids
<1>2. ASSUME NEW i \in FileId, FileRequest(i) PROVE SourceInv'
  <2>1. Once(Append(file, i), {})
    BY <1>2, OnceAppend DEF FileRequest, SourceInv, TypeOK
  <2>. QED  BY <1>2, <2>1 DEF FileRequest, SourceInv
<1>3. ASSUME NEW i \in MqttId, MqttRequest(i) PROVE SourceInv'
  <2>1. Once(Append(mqtt, i), {})
    BY <1>3, OnceAppend DEF MqttRequest, SourceInv, TypeOK
  <2>2. Ids(Append(mqtt, i)) = Ids(mqtt) \cup {i} /\ Ids(Append(issued, i)) = Ids(issued) \cup {i}
    BY IdsAppend DEF TypeOK
  <2>. QED  BY <1>3, <2>1, <2>2 DEF MqttRequest, SourceInv
<1>4. ASSUME NEW t \in Thread, RefreshReads(t) PROVE SourceInv'
  <2>1. Ids(file) \cap Ids(mqtt) = {}
    BY IdsInSet DEF TypeOK, ControlQueueAssumption
  <2>2. file \in Seq(Id) /\ mqtt \in Seq(Id)
    BY DEF TypeOK, Id
  <2>3. Once(file \o mqtt, {})
    BY <2>1, <2>2, OnceConcat DEF SourceInv
  <2>. QED  BY <1>4, <2>3, OnceEmpty, IdsEmpty DEF RefreshReads, SourceInv
<1>5. ASSUME NEW t \in Thread, Save(t) PROVE SourceInv'
  BY <1>5, OnceEmpty DEF Save, SourceInv
<1>6. CASE Crash
  BY <1>6, OnceEmpty, IdsEmpty DEF Crash, SourceInv
<1>. QED
  BY <1>1, <1>2, <1>3, <1>4, <1>5, <1>6
  DEF Next, Requests, Record, Step, Learn, DeviceMoves, RecordBuild, RecordWrite, EventBegin,
      PollBegin, RefreshRaises, Enqueue, Mark, Pop, Send, vars

\* For each base, an id is once among what it got, the answers on their way to it
\* and its queue.
OnceInv ==
    /\ \A t \in Thread : /\ pc[t] # "send" => out[t] = <<>>
                         /\ Once(out[t], unsaved)
    /\ \A p \in Peer :
         /\ Once(got[p], unsaved) /\ Once(queue[p], unsaved)
         /\ Ids(got[p]) \cap Ids(queue[p]) \subseteq unsaved
         /\ \A t \in Thread : client[t] = p =>
              /\ Ids(out[t]) \cap Ids(got[p]) \subseteq unsaved
              /\ Ids(out[t]) \cap Ids(queue[p]) \subseteq unsaved
              /\ \A u \in Thread : client[u] = p /\ u # t =>
                    Ids(out[t]) \cap Ids(out[u]) \subseteq unsaved

LEMMA OnceInit == Init => OnceInv
  BY OnceEmpty, IdsEmpty DEF Init, OnceInv

LEMMA OnceStep ==
    ASSUME ControlQueueAssumption, CoreInv, PlacedIsRemembered, SourceInv, OnceInv, [Next]_vars
    PROVE  OnceInv'
<1>. USE ControlQueueAssumption DEF CoreInv
<1>. USE DEF requestVars, recordVars, threadVars, gatewayVars
<1>1. CASE UNCHANGED <<queue, out, got, unsaved, client>> /\ UNCHANGED pc
  BY <1>1 DEF OnceInv, Once, Ids
<1>2. ASSUME NEW t \in Thread, pc[t] # "send", pc'[t] # "send",
             \A u \in Thread \ {t} : pc'[u] = pc[u] /\ client'[u] = client[u],
             UNCHANGED <<queue, out, got, unsaved>>
      PROVE  OnceInv'
  <2>1. \A u \in Thread : client'[u] = client[u] \/ out[u] = <<>>
    BY <1>2 DEF OnceInv
  <2>2. \A u \in Thread : pc'[u] # "send" => out[u] = <<>>
    BY <1>2 DEF OnceInv
  <2>3. \A u \in Thread : client'[u] # client[u] => Ids(out[u]) = {}
    BY <2>1, IdsEmpty
  <2>. QED  BY <1>2, <2>2, <2>3 DEF OnceInv
<1>3. ASSUME NEW t \in Thread, Enqueue(t) PROVE OnceInv'
  <2>. DEFINE i == batch[pos]
  <2>1. i \in Id
    BY <1>3, ElementOfSeq DEF Enqueue, BatchInv, TypeOK
  <2>2. i \notin Turned
    BY <1>3, LenProperties DEF Turned, Enqueue, BatchInv, SourceInv, Once, TypeOK
  <2>3. i \notin handled =>
          /\ \A p \in Peer : i \in Ids(queue[p]) \cup Ids(got[p]) => i \in unsaved
          /\ \A u \in Thread : i \in Ids(out[u]) => i \in unsaved
    <3>. HIDE DEF i
    <3>. QED  BY <2>2, PlacedParts
  <2>4. \A p \in Peer : queue'[p] = queue[p]
                        \/ (i \notin handled /\ queue'[p] = Append(queue[p], i))
    BY <1>3 DEF Enqueue
  <2>5. \A p \in Peer : Ids(Append(queue[p], i)) = Ids(queue[p]) \cup {i}
    BY <2>1, IdsAppend DEF TypeOK
  <2>6. \A p \in Peer : i \notin handled => Once(Append(queue[p], i), unsaved)
    BY <2>1, <2>3, OnceAppend DEF TypeOK, OnceInv
  <2>7. \A p \in Peer : Once(queue'[p], unsaved)
    BY <2>4, <2>6 DEF OnceInv
  <2>8. \A p \in Peer : Ids(queue'[p]) = Ids(queue[p])
                        \/ (i \notin handled /\ Ids(queue'[p]) = Ids(queue[p]) \cup {i})
    BY <2>4, <2>5
  <2>9. UNCHANGED <<out, got, unsaved, client>> /\ pc[t] # "send" /\ pc'[t] # "send"
        /\ \A u \in Thread : pc'[u] # "send" => pc[u] # "send"
    BY <1>3 DEF Enqueue, TypeOK
  <2>. HIDE DEF i
  <2>. QED  BY <2>3, <2>7, <2>8, <2>9 DEF OnceInv
<1>4. ASSUME NEW t \in Thread, Pop(t) PROVE OnceInv'
  <2>. DEFINE b == client[t]
  <2>1. /\ b \in Peer /\ pc[t] = "pop" /\ out[t] = <<>>
        /\ out' = [out EXCEPT ![t] = queue[b]] /\ queue' = [queue EXCEPT ![b] = <<>>]
        /\ UNCHANGED <<got, unsaved, client>> /\ pc' = [pc EXCEPT ![t] = "send"]
    BY <1>4 DEF Pop, ClientInv, OnceInv
  <2>2. /\ out'[t] = queue[b] /\ queue'[b] = <<>>
        /\ \A u \in Thread \ {t} : out'[u] = out[u] /\ pc'[u] = pc[u]
        /\ \A p \in Peer \ {b} : queue'[p] = queue[p]
    BY <2>1 DEF TypeOK
  <2>3. Ids(queue'[b]) = {} /\ Once(queue'[b], unsaved)
    BY <2>2, IdsEmpty, OnceEmpty
  <2>4. pc'[t] = "send"
    BY <2>1 DEF TypeOK
  <2>5. \A u \in Thread : (pc'[u] # "send" => out'[u] = <<>>) /\ Once(out'[u], unsaved)
    BY <2>1, <2>2, <2>4 DEF OnceInv
  <2>6. \A p \in Peer : /\ Once(got[p], unsaved) /\ Once(queue'[p], unsaved)
                        /\ Ids(got[p]) \cap Ids(queue'[p]) \subseteq unsaved
    BY <2>2, <2>3 DEF OnceInv
  <2>7. ASSUME NEW p \in Peer, NEW u \in Thread, client[u] = p
        PROVE  /\ Ids(out'[u]) \cap Ids(got[p]) \subseteq unsaved
               /\ Ids(out'[u]) \cap Ids(queue'[p]) \subseteq unsaved
               /\ \A v \in Thread : client[v] = p /\ v # u =>
                     Ids(out'[u]) \cap Ids(out'[v]) \subseteq unsaved
    <3>1. CASE u = t
      BY <2>1, <2>2, <2>3, <2>7, <3>1 DEF OnceInv
    <3>2. CASE u # t
      BY <2>1, <2>2, <2>3, <2>7, <3>2 DEF OnceInv
    <3>. QED  BY <3>1, <3>2
  <2>. HIDE DEF b
  <2>. QED  BY <2>1, <2>5, <2>6, <2>7 DEF OnceInv
<1>5. ASSUME NEW t \in Thread, Send(t) PROVE OnceInv'
  <2>. DEFINE b == client[t]
  <2>1. /\ b \in Peer /\ pc[t] = "send"
        /\ UNCHANGED <<queue, unsaved>>
        /\ out'[t] = <<>> /\ pc'[t] = "idle"
        /\ \A u \in Thread \ {t} : out'[u] = out[u] /\ pc'[u] = pc[u] /\ client'[u] = client[u]
        /\ client'[t] \notin Peer
        /\ \A p \in Peer : got'[p] = got[p] \/ (p = b /\ got'[p] = got[p] \o out[t])
    BY <1>5 DEF Send, ClientInv, TypeOK
  <2>2. /\ Once(got[b] \o out[t], unsaved)
        /\ Ids(got[b] \o out[t]) = Ids(got[b]) \cup Ids(out[t])
    BY <2>1, OnceConcat, IdsConcat DEF OnceInv, TypeOK
  <2>3. Ids(out'[t]) = {} /\ Once(out'[t], unsaved)
    BY <2>1, IdsEmpty, OnceEmpty
  <2>4. \A u \in Thread : (pc'[u] # "send" => out'[u] = <<>>) /\ Once(out'[u], unsaved)
    BY <2>1, <2>3 DEF OnceInv
  <2>5. \A p \in Peer : Once(got'[p], unsaved)
    BY <2>1, <2>2 DEF OnceInv
  <2>6. \A p \in Peer : Ids(got'[p]) = Ids(got[p])
                        \/ (p = b /\ Ids(got'[p]) = Ids(got[p]) \cup Ids(out[t]))
    BY <2>1, <2>2
  <2>7. \A p \in Peer : Ids(got'[p]) \cap Ids(queue[p]) \subseteq unsaved
    BY <2>1, <2>6 DEF OnceInv
  <2>8. ASSUME NEW p \in Peer, NEW u \in Thread, client'[u] = p
        PROVE  /\ Ids(out'[u]) \cap Ids(got'[p]) \subseteq unsaved
               /\ Ids(out'[u]) \cap Ids(queue[p]) \subseteq unsaved
               /\ \A v \in Thread : client'[v] = p /\ v # u =>
                     Ids(out'[u]) \cap Ids(out'[v]) \subseteq unsaved
    <3>1. u # t /\ out'[u] = out[u] /\ client[u] = p
      BY <2>1, <2>8
    <3>2. Ids(out[u]) \cap Ids(got'[p]) \subseteq unsaved
      BY <2>1, <2>6, <3>1 DEF OnceInv
    <3>. QED  BY <2>1, <3>1, <3>2 DEF OnceInv
  <2>. HIDE DEF b
  <2>. QED  BY <2>1, <2>4, <2>5, <2>7, <2>8 DEF OnceInv
<1>6. CASE Crash
  <2>1. /\ unsaved \subseteq unsaved' /\ got' = got
        /\ \A t \in Thread : out'[t] = <<>> /\ Ids(out'[t]) = {}
        /\ \A p \in Peer : queue'[p] = <<>> /\ Ids(queue'[p]) = {}
    BY <1>6, IdsEmpty DEF Crash
  <2>2. \A p \in Peer : Once(got[p], unsaved')
    BY <2>1, OnceMore DEF OnceInv
  <2>3. \A U : Once(<<>>, U)
    BY OnceEmpty
  <2>. QED  BY <2>1, <2>2, <2>3 DEF OnceInv
<1>7. ASSUME NEW t \in Thread,
             \/ \E p \in Peer : PollBegin(t, p)
             \/ EventBegin(t) \/ RefreshRaises(t) \/ RefreshReads(t) \/ Mark(t) \/ Save(t)
      PROVE  OnceInv'
  <2>1. /\ pc[t] # "send" /\ UNCHANGED <<queue, out, got, unsaved>>
        /\ \A u \in Thread \ {t} : client'[u] = client[u]
    BY <1>7 DEF EventBegin, PollBegin, RefreshRaises, RefreshReads, Mark, Save, TypeOK
  <2>2. \E s \in {"refresh", "idle", "pop", "enqueue", "mark", "save"} :
           pc' = [pc EXCEPT ![t] = s]
    BY <1>7 DEF EventBegin, PollBegin, RefreshRaises, RefreshReads, Mark, Save, AfterRefresh
  <2>3. pc'[t] # "send" /\ \A u \in Thread \ {t} : pc'[u] = pc[u]
    BY <2>2 DEF TypeOK
  <2>. QED  BY <1>2, <2>1, <2>3
<1>8. CASE Requests \/ (\E r \in Recorder : Record(r)) \/ UNCHANGED vars
  BY <1>1, <1>8
  DEF Requests, Record, FileRequest, MqttRequest, Learn, DeviceMoves, RecordBuild,
      RecordWrite, vars
<1>. QED
  BY <1>3, <1>4, <1>5, <1>6, <1>7, <1>8 DEF Next, Step

\* Only an id that a crash caught enqueued and not on disk reaches a base twice.
THEOREM DeliveredOnce == Spec => []AtMostOnceIfSaved
<1>1. Init => SourceInv /\ OnceInv
  BY SourceInit, OnceInit
<1>2. CoreInv /\ PlacedIsRemembered /\ SourceInv /\ OnceInv /\ [Next]_vars
        => (SourceInv /\ OnceInv)'
  BY SourceStep, OnceStep, ControlQueueAssumption
<1>3. OnceInv => AtMostOnceIfSaved
  BY DEF OnceInv, Once, AtMostOnceIfSaved
<1>. QED  BY <1>1, <1>2, <1>3, CoreInvariance, PlacedRemembered, PTL DEF Spec

-----------------------------------------------------------------------------
\* Request i is in the queue of base p, on its way there, or was received.
At(p, i) ==
    \/ i \in Ids(queue[p]) \/ i \in Ids(got[p])
    \/ \E t \in Thread : client[t] = p /\ i \in Ids(out[t])

\* A request that names no device is at a base its hint allows, and at one only.
RouteInv ==
    \A p \in Peer : \A i \in Id \ unsaved :
        At(p, i) /\ DeviceOf[i] = None =>
            HintOf[i] \in {p, None} /\ \A q \in Peer : At(q, i) => q = p

LEMMA RouteInit == Init => RouteInv
  BY IdsEmpty DEF Init, RouteInv, At

\* Only Enqueue takes a request to a base.
LEMMA AtStep ==
    ASSUME ControlQueueAssumption, CoreInv, PlacedIsRemembered, OnceInv, [Next]_vars,
           NEW p \in Peer, NEW i \in Id, At(p, i)'
    PROVE  At(p, i) \/ \E t \in Thread :
              Enqueue(t) /\ i = batch[pos] /\ i \notin handled /\ p \in Targets(i)
<1>. USE ControlQueueAssumption DEF CoreInv
<1>. USE DEF requestVars, recordVars, threadVars, gatewayVars
<1>1. \/ i \in Ids(queue'[p]) \/ i \in Ids(got'[p])
      \/ \E t \in Thread : client'[t] = p /\ i \in Ids(out'[t])
  BY DEF At, Ids
<1>2. ASSUME UNCHANGED <<queue, out, got, client>> PROVE At(p, i)
  BY <1>1, <1>2 DEF At
<1>3. ASSUME NEW t \in Thread, Enqueue(t) PROVE
        At(p, i) \/ (Enqueue(t) /\ i = batch[pos] /\ i \notin handled /\ p \in Targets(i))
  <2>1. batch[pos] \in Id
    BY <1>3, ElementOfSeq DEF Enqueue, BatchInv, TypeOK
  <2>2. Ids(Append(queue[p], batch[pos])) = Ids(queue[p]) \cup {batch[pos]}
    BY <2>1, IdsAppend DEF TypeOK
  <2>3. \/ queue'[p] = queue[p]
        \/ /\ batch[pos] \notin handled /\ p \in Targets(batch[pos])
           /\ queue'[p] = Append(queue[p], batch[pos])
    BY <1>3 DEF Enqueue
  <2>4. UNCHANGED <<got, out, client>>
    BY <1>3 DEF Enqueue
  <2>. QED  BY <1>1, <1>3, <2>2, <2>3, <2>4 DEF At
<1>4. ASSUME NEW t \in Thread, Pop(t) PROVE At(p, i)
  <2>1. /\ client[t] \in Peer /\ UNCHANGED <<got, client>>
        /\ out'[t] = queue[client[t]]
        /\ \A u \in Thread \ {t} : out'[u] = out[u]
        /\ queue'[p] = queue[p] \/ queue'[p] = <<>>
    BY <1>4 DEF Pop, ClientInv, TypeOK
  <2>. QED  BY <1>1, <2>1, IdsEmpty DEF At
<1>5. ASSUME NEW t \in Thread, Send(t) PROVE At(p, i)
  <2>1. /\ UNCHANGED queue /\ out'[t] = <<>>
        /\ \A u \in Thread \ {t} : out'[u] = out[u] /\ client'[u] = client[u]
        /\ got'[p] = got[p] \/ (client[t] = p /\ got'[p] = got[p] \o out[t])
    BY <1>5 DEF Send, ClientInv, TypeOK
  <2>2. Ids(got[p] \o out[t]) = Ids(got[p]) \cup Ids(out[t])
    BY IdsConcat DEF TypeOK
  <2>. QED  BY <1>1, <2>1, <2>2, IdsEmpty DEF At
<1>6. ASSUME NEW t \in Thread, NEW q \in Peer, PollBegin(t, q) PROVE At(p, i)
  <2>1. /\ UNCHANGED <<queue, got, out>> /\ out[t] = <<>>
        /\ \A u \in Thread \ {t} : client'[u] = client[u]
    BY <1>6 DEF PollBegin, OnceInv, TypeOK
  <2>. QED  BY <1>1, <2>1, IdsEmpty DEF At
<1>7. CASE Crash
  <2>1. /\ got' = got /\ queue'[p] = <<>> /\ \A u \in Thread : out'[u] = <<>>
    BY <1>7 DEF Crash
  <2>. QED  BY <1>1, <2>1, IdsEmpty DEF At
<1>. QED
  BY <1>2, <1>3, <1>4, <1>5, <1>6, <1>7
  DEF Next, Requests, Record, Step, FileRequest, MqttRequest, Learn, DeviceMoves,
      RecordBuild, RecordWrite, EventBegin, RefreshRaises, RefreshReads, Mark, Save, vars

LEMMA UnsavedGrows ==
    ASSUME [Next]_vars
    PROVE  unsaved \subseteq unsaved'
  BY DEF Next, Requests, Record, Step, FileRequest, MqttRequest, Learn, DeviceMoves,
      RecordBuild, RecordWrite, EventBegin, PollBegin, RefreshRaises, RefreshReads,
      Enqueue, Mark, Save, Pop, Send, Crash, vars, requestVars, recordVars, threadVars,
      gatewayVars

LEMMA RouteStep ==
    ASSUME ControlQueueAssumption, CoreInv, PlacedIsRemembered, SourceInv, OnceInv, RouteInv,
           [Next]_vars
    PROVE  RouteInv'
<1>1. SUFFICES ASSUME NEW p \in Peer, NEW i \in Id, i \notin unsaved',
                      At(p, i)', DeviceOf[i] = None
               PROVE  /\ HintOf[i] \in {p, None}
                      /\ \A q \in Peer : At(q, i)' => q = p
  BY DEF RouteInv
<1>2. i \notin unsaved
  BY <1>1, UnsavedGrows
<1>3. CASE \A q \in Peer : At(q, i)' => At(q, i)
  BY <1>1, <1>2, <1>3 DEF RouteInv
<1>4. CASE \E q \in Peer : At(q, i)' /\ ~ At(q, i)
  <2>1. PICK t \in Thread : Enqueue(t) /\ i = batch[pos] /\ i \notin handled
    BY <1>4, AtStep
  <2>2. i \notin Turned
    <3>1. batch \in Seq(Id) /\ pos \in 1..Len(batch) /\ Once(batch, {})
      BY <2>1 DEF Enqueue, CoreInv, BatchInv, TypeOK, SourceInv
    <3>. QED  BY <2>1, <3>1, LenProperties DEF Turned, Once
  <2>3. \A q \in Peer : ~ At(q, i)
    BY <1>2, <2>1, <2>2, PlacedParts DEF At
  <2>4. \A q \in Peer : At(q, i)' => q \in Targets(i)
    BY <2>3, AtStep
  <2>5. \A q \in Targets(i) : HintOf[i] \in {q, None} /\ Targets(i) = {q}
    BY <1>1 DEF Targets
  <2>. QED  BY <1>1, <2>4, <2>5
<1>. QED  BY <1>3, <1>4

\* A request reaches the base it names, and one that names none a single base.
THEOREM NothingStrays == Spec => []NoStrayRequest
<1>1. Init => SourceInv /\ OnceInv /\ RouteInv
  BY SourceInit, OnceInit, RouteInit
<1>2. CoreInv /\ PlacedIsRemembered /\ SourceInv /\ OnceInv /\ RouteInv /\ [Next]_vars
        => (SourceInv /\ OnceInv /\ RouteInv)'
  BY SourceStep, OnceStep, RouteStep, ControlQueueAssumption
<1>3. CoreInv /\ RouteInv => NoStrayRequest
  <2>1. CoreInv => \A p \in Peer : Ids(got[p]) \subseteq Id
    BY IdsInSet DEF CoreInv, TypeOK
  <2>. QED  BY <2>1 DEF RouteInv, NoStrayRequest, At
<1>. QED  BY <1>1, <1>2, <1>3, CoreInvariance, PlacedRemembered, PTL DEF Spec

-----------------------------------------------------------------------------
\* In s, a does not come after b.
InTurn(s, a, b) == \A j, k \in DOMAIN s : s[j] = a /\ s[k] = b => j <= k

\* The pairs of requests whose order both sources allow.
Turns == {c \in Id \X Id : InTurn(file, c[1], c[2]) /\ InTurn(issued, c[1], c[2])}

\* Of any two requests of x, the first of which is not in U, the order is in R; so is
\* that of a request of A and a later one of B.
Sorted(x, U, R) == \A m, n \in DOMAIN x : m < n /\ x[m] \notin U => <<x[m], x[n]>> \in R
Precede(A, B, R) == \A a \in A, b \in B : <<a, b>> \in R

Known == Ids(file) \cup Ids(issued)
Taken == handled \cup Ids(batch)

\* What has been taken from a source is what came first in it: so is what is in memory,
\* on disk and on its way there.
TurnInv ==
    /\ handled \cup unsaved \cup Ids(batch) \subseteq Known
    /\ Sorted(mqtt, {}, Turns) /\ Sorted(batch, {}, Turns)
    /\ Precede(Taken, (Ids(file) \cup Ids(mqtt)) \ Taken, Turns)
    /\ Precede(handled, Ids(batch) \ handled, Turns)
    /\ Precede(disk.handled, Ids(file) \ disk.handled, Turns)
    /\ \A r \in Recorder : Precede(snap[r].handled, Ids(file) \ snap[r].handled, Turns)

LEMMA InTurnAppend ==
    ASSUME NEW S, NEW s \in Seq(S), NEW e \in S, NEW a
    PROVE  /\ \A b : a # e /\ InTurn(s, a, b) => InTurn(Append(s, e), a, b)
           /\ e \notin Ids(s) => InTurn(Append(s, e), a, e)
<1>1. /\ DOMAIN Append(s, e) = 1..(Len(s) + 1) /\ DOMAIN s = 1..Len(s) /\ Len(s) \in Nat
      /\ \A n \in 1..Len(s) : Append(s, e)[n] = s[n]
      /\ Append(s, e)[Len(s) + 1] = e
  BY AppendProperties, LenProperties
<1>2. ASSUME NEW b, a # e, InTurn(s, a, b) PROVE InTurn(Append(s, e), a, b)
  BY <1>1, <1>2 DEF InTurn
<1>3. ASSUME e \notin Ids(s) PROVE InTurn(Append(s, e), a, e)
  BY <1>1, <1>3 DEF InTurn, Ids
<1>. QED  BY <1>2, <1>3

LEMMA SortedKept ==
    ASSUME NEW x, NEW U, NEW V, U \subseteq V, NEW R, NEW Q, Sorted(x, U, R),
           \A a \in Ids(x), b \in Ids(x) : <<a, b>> \in R => <<a, b>> \in Q
    PROVE  Sorted(x, V, Q)
  BY DEF Sorted, Ids

LEMMA SortedAppend ==
    ASSUME NEW S, NEW s \in Seq(S), NEW e \in S, NEW U, NEW R, Sorted(s, U, R),
           Precede(Ids(s) \ U, {e}, R)
    PROVE  Sorted(Append(s, e), U, R)
<1>1. /\ DOMAIN Append(s, e) = 1..(Len(s) + 1) /\ DOMAIN s = 1..Len(s) /\ Len(s) \in Nat
      /\ \A n \in 1..Len(s) : Append(s, e)[n] = s[n]
      /\ Append(s, e)[Len(s) + 1] = e
  BY AppendProperties, LenProperties
<1>. QED  BY <1>1 DEF Sorted, Precede, Ids

LEMMA SortedConcat ==
    ASSUME NEW S, NEW s \in Seq(S), NEW u \in Seq(S), NEW U, NEW R,
           Sorted(s, U, R), Sorted(u, U, R), Precede(Ids(s) \ U, Ids(u), R)
    PROVE  Sorted(s \o u, U, R)
<1>1. /\ \A n \in 1..(Len(s) + Len(u)) :
            (s \o u)[n] = IF n <= Len(s) THEN s[n] ELSE u[n - Len(s)]
      /\ DOMAIN (s \o u) = 1..(Len(s) + Len(u))
      /\ DOMAIN s = 1..Len(s) /\ DOMAIN u = 1..Len(u)
      /\ Len(s) \in Nat /\ Len(u) \in Nat
  BY LenProperties, ConcatProperties
<1>2. SUFFICES ASSUME NEW m \in DOMAIN (s \o u), NEW n \in DOMAIN (s \o u), m < n,
                      (s \o u)[m] \notin U
               PROVE  <<(s \o u)[m], (s \o u)[n]>> \in R
  BY DEF Sorted
<1>3. CASE n <= Len(s)
  BY <1>1, <1>2, <1>3 DEF Sorted
<1>4. CASE m > Len(s)
  <2>1. m - Len(s) \in DOMAIN u /\ n - Len(s) \in DOMAIN u /\ m - Len(s) < n - Len(s)
    BY <1>1, <1>2, <1>4
  <2>2. (s \o u)[m] = u[m - Len(s)] /\ (s \o u)[n] = u[n - Len(s)]
    BY <1>1, <1>2, <1>4
  <2>. QED  BY <1>2, <2>1, <2>2 DEF Sorted
<1>5. CASE m <= Len(s) /\ n > Len(s)
  <2>1. m \in DOMAIN s /\ n - Len(s) \in DOMAIN u
    BY <1>1, <1>2, <1>5
  <2>2. (s \o u)[m] = s[m] /\ (s \o u)[n] = u[n - Len(s)]
    BY <1>1, <1>2, <1>5
  <2>. QED  BY <1>2, <2>1, <2>2 DEF Precede, Ids
<1>6. n <= Len(s) \/ m > Len(s) \/ (m <= Len(s) /\ n > Len(s))
  BY <1>1
<1>. QED  BY <1>2, <1>3, <1>4, <1>5, <1>6

LEMMA SortedEmpty == \A U, R : Sorted(<<>>, U, R) /\ \A B : Precede({}, B, R)
  BY DEF Sorted, Precede

\* A new request comes after those that are known, and leaves their order as it is.
LEMMA FileTurns ==
    ASSUME ControlQueueAssumption, TypeOK, NEW i \in FileId, FileRequest(i)
    PROVE  /\ Ids(file') = Ids(file) \cup {i} /\ issued' = issued /\ i \notin Known
           /\ \A a \in Known, b \in Id : <<a, b>> \in Turns => <<a, b>> \in Turns'
           /\ Precede(Known, {i}, Turns')
<1>1. /\ file' = Append(file, i) /\ issued' = issued /\ i \notin Ids(file) /\ i \notin Ids(issued)
      /\ file \in Seq(FileId) /\ Ids(file) \subseteq FileId /\ Ids(issued) \subseteq MqttId
      /\ Ids(file') = Ids(file) \cup {i}
  BY IdsInSet, IdsAppend DEF FileRequest, requestVars, TypeOK, ControlQueueAssumption
<1>2. /\ \A a, b : a # i /\ InTurn(file, a, b) => InTurn(file', a, b)
      /\ \A a : InTurn(file', a, i)
  BY <1>1, InTurnAppend
<1>3. \A a : InTurn(issued, a, i)
  BY <1>1 DEF InTurn, Ids
<1>. QED  BY <1>1, <1>2, <1>3 DEF Turns, Known, Precede, Id

LEMMA MqttTurns ==
    ASSUME ControlQueueAssumption, TypeOK, NEW i \in MqttId, MqttRequest(i)
    PROVE  /\ Ids(issued') = Ids(issued) \cup {i} /\ file' = file /\ i \notin Known
           /\ \A a \in Known, b \in Id : <<a, b>> \in Turns => <<a, b>> \in Turns'
           /\ Precede(Known, {i}, Turns')
<1>1. /\ issued' = Append(issued, i) /\ file' = file /\ i \notin Ids(file) /\ i \notin Ids(issued)
      /\ issued \in Seq(MqttId) /\ Ids(file) \subseteq FileId /\ Ids(issued) \subseteq MqttId
      /\ Ids(issued') = Ids(issued) \cup {i}
  BY IdsInSet, IdsAppend DEF MqttRequest, TypeOK, ControlQueueAssumption
<1>2. /\ \A a, b : a # i /\ InTurn(issued, a, b) => InTurn(issued', a, b)
      /\ \A a : InTurn(issued', a, i)
  BY <1>1, InTurnAppend
<1>3. \A a : InTurn(file, a, i)
  BY <1>1 DEF InTurn, Ids
<1>. QED  BY <1>1, <1>2, <1>3 DEF Turns, Known, Precede, Id

\* The file, and a list read from it and from MQTT, are in order.
LEMMA SourceSorted ==
    ASSUME ControlQueueAssumption, TypeOK, SourceInv, Sorted(mqtt, {}, Turns)
    PROVE  Sorted(file \o mqtt, {}, Turns)
<1>1. /\ file \in Seq(Id) /\ mqtt \in Seq(Id) /\ Ids(file) \subseteq FileId
      /\ Ids(mqtt) \subseteq MqttId /\ Ids(issued) \subseteq MqttId
  BY IdsInSet DEF TypeOK, Id
<1>2. Sorted(file, {}, Turns)
  <2>1. SUFFICES ASSUME NEW m \in DOMAIN file, NEW n \in DOMAIN file, m < n
                 PROVE  <<file[m], file[n]>> \in Turns
    BY DEF Sorted
  <2>2. file[m] \in FileId /\ file[n] \in FileId /\ m \in Int /\ n \in Int
    BY ElementOfSeq, LenProperties DEF TypeOK
  <2>3. InTurn(file, file[m], file[n])
    BY <2>1, <2>2 DEF SourceInv, Once, InTurn
  <2>4. InTurn(issued, file[m], file[n])
    BY <1>1, <2>2 DEF ControlQueueAssumption, InTurn, Ids
  <2>. QED  BY <2>2, <2>3, <2>4 DEF Turns, Id
<1>3. Precede(Ids(file) \ {}, Ids(mqtt), Turns)
  <2>1. SUFFICES ASSUME NEW a \in Ids(file), NEW b \in Ids(mqtt) PROVE <<a, b>> \in Turns
    BY DEF Precede
  <2>2. b \notin Ids(file) /\ a \notin Ids(issued) /\ a \in Id /\ b \in Id
    BY <1>1 DEF ControlQueueAssumption, Id
  <2>3. InTurn(file, a, b) /\ InTurn(issued, a, b)
    BY <2>2 DEF InTurn, Ids
  <2>. QED  BY <2>2, <2>3 DEF Turns
<1>. QED  BY <1>1, <1>2, <1>3, SortedConcat

LEMMA TurnInit == Init => TurnInv
<1>1. SUFFICES ASSUME Init PROVE TurnInv
  OBVIOUS
<1>2. /\ mqtt = <<>> /\ batch = <<>> /\ handled = {} /\ unsaved = {} /\ disk.handled = {}
      /\ Ids(file) = {} /\ Ids(mqtt) = {} /\ Ids(batch) = {} /\ Taken = {}
      /\ \A r \in Recorder : snap[r].handled = {}
  BY <1>1, IdsEmpty, DocumentsTyped DEF Init, Taken
<1>3. Sorted(mqtt, {}, Turns) /\ Sorted(batch, {}, Turns)
  BY <1>2, SortedEmpty
<1>. QED  BY <1>2, <1>3 DEF TurnInv, Precede

LEMMA TurnStep ==
    ASSUME ControlQueueAssumption, CoreInv, PlacedIsRemembered, SourceInv, TurnInv, [Next]_vars
    PROVE  TurnInv'
<1>. USE ControlQueueAssumption DEF CoreInv
<1>. USE DEF requestVars, recordVars, threadVars, gatewayVars
<1>0. /\ Taken \subseteq Known /\ Ids(mqtt) \subseteq Known /\ Ids(batch) \subseteq Known
      /\ disk.handled \subseteq Known /\ \A r \in Recorder : snap[r].handled \subseteq Known
      /\ Known \subseteq Id
  <2>1. Ids(file) \subseteq FileId /\ Ids(issued) \subseteq MqttId
    BY IdsInSet DEF TypeOK
  <2>. QED  BY <2>1 DEF TurnInv, SourceInv, Taken, Known, DiskInv, Id
<1>1. CASE UNCHANGED <<file, issued, mqtt, batch, handled, disk, snap, unsaved>>
  BY <1>1 DEF TurnInv, Taken, Known, Turns
<1>2. ASSUME NEW i \in FileId, FileRequest(i) PROVE TurnInv'
  <2>1. UNCHANGED <<issued, mqtt, batch, handled, disk, snap, unsaved>>
    BY <1>2 DEF FileRequest
  <2>2. /\ Ids(file') = Ids(file) \cup {i} /\ i \notin Known
        /\ \A a \in Known, b \in Id : <<a, b>> \in Turns => <<a, b>> \in Turns'
        /\ Precede(Known, {i}, Turns')
    BY <1>2, FileTurns
  <2>3. Known' = Known \cup {i} /\ Taken' = Taken
    BY <2>1, <2>2 DEF Known, Taken
  <2>4. ASSUME NEW A, A \subseteq Known, NEW B, B \subseteq Known, Precede(A, B, Turns)
        PROVE  Precede(A, B \cup {i}, Turns')
    BY <1>0, <2>2, <2>4 DEF Precede
  <2>5. ASSUME NEW x, Ids(x) \subseteq Known, Sorted(x, {}, Turns) PROVE Sorted(x, {}, Turns')
    BY <1>0, <2>2, <2>5, SortedKept
  <2>6. Sorted(mqtt, {}, Turns') /\ Sorted(batch, {}, Turns')
    BY <1>0, <2>5 DEF TurnInv
  <2>7. Precede(Taken, ((Ids(file) \cup Ids(mqtt)) \ Taken) \cup {i}, Turns')
    BY <1>0, <2>4 DEF TurnInv, Known
  <2>8. Precede(handled, (Ids(batch) \ handled) \cup {i}, Turns')
    BY <1>0, <2>4 DEF TurnInv, Taken
  <2>9. ASSUME NEW D, D \subseteq Known, Precede(D, Ids(file) \ D, Turns)
        PROVE  Precede(D, Ids(file') \ D, Turns')
    <3>1. Precede(D, (Ids(file) \ D) \cup {i}, Turns')
      BY <2>4, <2>9 DEF Known
    <3>2. Ids(file') \ D \subseteq (Ids(file) \ D) \cup {i}
      BY <2>2
    <3>. QED  BY <3>1, <3>2 DEF Precede
  <2>10. /\ Precede(disk.handled, Ids(file') \ disk.handled, Turns')
         /\ \A r \in Recorder : Precede(snap[r].handled, Ids(file') \ snap[r].handled, Turns')
    BY <1>0, <2>9 DEF TurnInv
  <2>11. (Ids(file') \cup Ids(mqtt)) \ Taken \subseteq ((Ids(file) \cup Ids(mqtt)) \ Taken) \cup {i}
    BY <2>2
  <2>12. Precede(Taken, (Ids(file') \cup Ids(mqtt)) \ Taken, Turns')
    BY <2>7, <2>11 DEF Precede
  <2>13. Precede(handled, Ids(batch) \ handled, Turns')
    BY <2>8 DEF Precede
  <2>. QED  BY <2>1, <2>3, <2>6, <2>10, <2>12, <2>13 DEF TurnInv
<1>3. ASSUME NEW i \in MqttId, MqttRequest(i) PROVE TurnInv'
  <2>1. UNCHANGED <<file, batch, handled, disk, snap, unsaved>> /\ mqtt' = Append(mqtt, i)
    BY <1>3 DEF MqttRequest
  <2>2. /\ Ids(issued') = Ids(issued) \cup {i} /\ i \notin Known
        /\ \A a \in Known, b \in Id : <<a, b>> \in Turns => <<a, b>> \in Turns'
        /\ Precede(Known, {i}, Turns')
    BY <1>3, MqttTurns
  <2>3. /\ Known' = Known \cup {i} /\ Taken' = Taken /\ Ids(mqtt') = Ids(mqtt) \cup {i}
        /\ mqtt \in Seq(Id) /\ i \in Id
    BY <2>1, <2>2, IdsAppend DEF Known, Taken, TypeOK, Id
  <2>4. ASSUME NEW A, A \subseteq Known, NEW B, B \subseteq Known, Precede(A, B, Turns)
        PROVE  Precede(A, B \cup {i}, Turns')
    BY <1>0, <2>2, <2>4 DEF Precede
  <2>5. ASSUME NEW x, Ids(x) \subseteq Known, Sorted(x, {}, Turns) PROVE Sorted(x, {}, Turns')
    BY <1>0, <2>2, <2>5, SortedKept
  <2>6. Sorted(mqtt, {}, Turns') /\ Sorted(batch, {}, Turns')
    BY <1>0, <2>5 DEF TurnInv
  <2>7. Sorted(mqtt', {}, Turns')
    <3>1. Precede(Ids(mqtt) \ {}, {i}, Turns')
      BY <1>0, <2>2 DEF Precede
    <3>. QED  BY <2>1, <2>3, <2>6, <3>1, SortedAppend
  <2>8. Precede(Taken, ((Ids(file) \cup Ids(mqtt)) \ Taken) \cup {i}, Turns')
    BY <1>0, <2>4 DEF TurnInv, Known
  <2>9. (Ids(file) \cup Ids(mqtt')) \ Taken \subseteq ((Ids(file) \cup Ids(mqtt)) \ Taken) \cup {i}
    BY <2>3
  <2>10. Precede(Taken, (Ids(file) \cup Ids(mqtt')) \ Taken, Turns')
    BY <2>8, <2>9 DEF Precede
  <2>11. ASSUME NEW A, A \subseteq Known, NEW B, B \subseteq Known, Precede(A, B, Turns)
         PROVE  Precede(A, B, Turns')
    BY <2>4, <2>11 DEF Precede
  <2>12. /\ Precede(handled, Ids(batch) \ handled, Turns')
         /\ Precede(disk.handled, Ids(file) \ disk.handled, Turns')
         /\ \A r \in Recorder : Precede(snap[r].handled, Ids(file) \ snap[r].handled, Turns')
    BY <1>0, <2>11 DEF TurnInv, Taken, Known
  <2>. QED  BY <2>1, <2>3, <2>6, <2>7, <2>10, <2>12 DEF TurnInv
\* Memory, as a document takes it: it is ahead of the file, whatever batch is in hand.
<1>4. Precede(handled, Ids(file) \ handled, Turns)
  BY DEF TurnInv, Taken, Precede
<1>5. ASSUME NEW r \in Recorder, RecordBuild(r) PROVE TurnInv'
  <2>1. UNCHANGED <<file, issued, mqtt, batch, handled, disk, unsaved>>
    BY <1>5 DEF RecordBuild
  <2>2. \A q \in Recorder : snap'[q].handled \in {snap[q].handled, handled}
    BY <1>5, DocumentsTyped DEF RecordBuild, TypeOK
  <2>3. \A q \in Recorder : Precede(snap'[q].handled, Ids(file) \ snap'[q].handled, Turns)
    BY <1>4, <2>2 DEF TurnInv
  <2>. QED  BY <2>1, <2>3 DEF TurnInv, Taken, Known, Turns
<1>6. ASSUME NEW r \in Recorder, RecordWrite(r) PROVE TurnInv'
  <2>1. UNCHANGED <<file, issued, mqtt, batch, handled, unsaved>> /\ disk' = snap[r]
    BY <1>6 DEF RecordWrite
  <2>2. \A q \in Recorder : snap'[q].handled \in {snap[q].handled, {}}
    BY <1>6, DocumentsTyped DEF RecordWrite, TypeOK
  <2>3. \A q \in Recorder : Precede(snap'[q].handled, Ids(file) \ snap'[q].handled, Turns)
    BY <2>2 DEF TurnInv, Precede
  <2>. QED  BY <2>1, <2>3 DEF TurnInv, Taken, Known, Turns
<1>7. ASSUME NEW t \in Thread, RefreshReads(t) PROVE TurnInv'
  <2>1. /\ UNCHANGED <<file, issued, handled, disk, snap, unsaved>> /\ mqtt' = <<>>
        /\ batch = <<>> /\ (batch' = batch \/ batch' = file \o mqtt)
    BY <1>7 DEF RefreshReads, BatchInv
  <2>2. /\ Sorted(file \o mqtt, {}, Turns)
        /\ Ids(file \o mqtt) = Ids(file) \cup Ids(mqtt)
    <3>1. file \in Seq(Id) /\ mqtt \in Seq(Id)
      BY DEF TypeOK, Id
    <3>. QED  BY <3>1, SourceSorted, IdsConcat DEF TurnInv
  <2>3. Ids(batch) = {} /\ Ids(mqtt') = {} /\ Taken = handled
    BY <2>1, IdsEmpty DEF Taken
  <2>4. Precede(handled, (Ids(file) \cup Ids(mqtt)) \ handled, Turns)
    BY <2>3 DEF TurnInv
  <2>5. Sorted(batch', {}, Turns) /\ Ids(batch') \in {{}, Ids(file) \cup Ids(mqtt)}
    <3>1. Sorted(batch, {}, Turns)
      BY DEF TurnInv
    <3>. QED  BY <2>1, <2>2, <2>3, <3>1
  <2>6. Precede(handled, Ids(batch') \ handled, Turns)
    BY <2>4, <2>5 DEF Precede
  <2>7. Precede(handled \cup Ids(batch'), Ids(file) \ (handled \cup Ids(batch')), Turns)
    BY <2>4, <2>5 DEF Precede
  <2>8. Ids(batch') \subseteq Known
    BY <1>0, <2>5 DEF Known
  <2>9. Taken' = handled \cup Ids(batch') /\ Turns' = Turns /\ Known' = Known
    BY <2>1 DEF Taken, Turns, Known
  <2>10. Sorted(mqtt', {}, Turns)
    BY <2>1, SortedEmpty
  <2>. QED  BY <2>1, <2>3, <2>5, <2>6, <2>7, <2>8, <2>9, <2>10 DEF TurnInv
<1>8. ASSUME NEW t \in Thread, Mark(t) PROVE TurnInv'
  <2>1. UNCHANGED <<file, issued, mqtt, batch, disk, snap, unsaved>> /\ handled' = Taken
    BY <1>8 DEF Mark, Taken
  <2>2. Taken' = Taken /\ Turns' = Turns /\ Known' = Known /\ Ids(batch) \subseteq Taken
    BY <2>1 DEF Taken, Turns, Known
  <2>3. Precede(handled', Ids(batch) \ handled', Turns)
    BY <2>1, <2>2 DEF Precede
  <2>. QED  BY <1>0, <2>1, <2>2, <2>3 DEF TurnInv
<1>9. ASSUME NEW t \in Thread, Save(t) PROVE TurnInv'
  <2>1. UNCHANGED <<file, issued, mqtt, handled, snap, unsaved>> /\ batch' = <<>>
        /\ Ids(batch) \subseteq handled /\ disk'.handled \in {disk.handled, handled}
    BY <1>9, DocumentsTyped DEF Save, BatchInv
  <2>2. Ids(batch') = {} /\ Taken = handled /\ Taken' = handled
    BY <2>1, IdsEmpty DEF Taken
  <2>3. Turns' = Turns /\ Known' = Known
    BY <2>1 DEF Turns, Known
  <2>4. Precede(disk'.handled, Ids(file) \ disk'.handled, Turns)
    BY <1>4, <2>1 DEF TurnInv
  <2>5. Sorted(batch', {}, Turns) /\ Precede(handled, Ids(batch') \ handled, Turns)
    BY <2>1, <2>2, SortedEmpty DEF Precede
  <2>. QED  BY <2>1, <2>2, <2>3, <2>4, <2>5 DEF TurnInv
<1>10. CASE Crash
  <2>1. /\ UNCHANGED <<file, issued, disk>> /\ batch' = <<>> /\ mqtt' = <<>>
        /\ handled' = disk.handled /\ unsaved' \subseteq unsaved \cup Placed
        /\ \A r \in Recorder : snap'[r].handled = {}
    BY <1>10, DocumentsTyped DEF Crash
  <2>2. /\ Ids(batch') = {} /\ Ids(mqtt') = {} /\ Taken' = disk.handled
        /\ Turns' = Turns /\ Known' = Known
    BY <2>1, IdsEmpty DEF Taken, Turns, Known
  <2>3. Placed \subseteq Known
    <3>1. {batch[n] : n \in {k \in DOMAIN batch : k < pos}} \subseteq Ids(batch)
      BY DEF Ids
    <3>. QED  BY <1>0, <3>1 DEF PlacedIsRemembered, TurnInv
  <2>4. /\ Sorted(mqtt', {}, Turns) /\ Sorted(batch', {}, Turns)
        /\ Precede(handled', Ids(batch') \ handled', Turns)
        /\ \A r \in Recorder : Precede(snap'[r].handled, Ids(file) \ snap'[r].handled, Turns)
    BY <2>1, <2>2, SortedEmpty DEF Precede
  <2>. QED  BY <1>0, <2>1, <2>2, <2>3, <2>4 DEF TurnInv
<1>. QED
  BY <1>1, <1>2, <1>3, <1>5, <1>6, <1>7, <1>8, <1>9, <1>10
  DEF Next, Requests, Record, Step, Learn, DeviceMoves, EventBegin, PollBegin,
      RefreshRaises, Enqueue, Pop, Send, vars

\* No two threads serve one base.
ServedAlone == \A t, u \in Thread : client[t] \in Peer /\ client[t] = client[u] => t = u

LEMMA AloneInit == ControlQueueAssumption /\ Init => ServedAlone
  BY DEF ControlQueueAssumption, Init, ServedAlone

LEMMA AloneStep ==
    ASSUME ControlQueueAssumption, Overlap = FALSE, CoreInv, ServedAlone, [Next]_vars
    PROVE  ServedAlone'
<1>. USE ControlQueueAssumption DEF CoreInv
<1>. USE DEF requestVars, recordVars, threadVars, gatewayVars
<1>1. CASE \A u \in Thread : client'[u] = client[u] \/ client'[u] = None
  BY <1>1 DEF ServedAlone
<1>2. ASSUME NEW t \in Thread, NEW p \in Peer, PollBegin(t, p) PROVE ServedAlone'
  <2>1. /\ client'[t] = p /\ \A u \in Thread : client[u] # p
        /\ \A u \in Thread \ {t} : client'[u] = client[u]
    BY <1>2 DEF PollBegin, TypeOK
  <2>. QED  BY <2>1 DEF ServedAlone
<1>3. ASSUME NEW t \in Thread, Send(t) PROVE ServedAlone'
  BY <1>1, <1>3 DEF Send, TypeOK
<1>4. CASE Crash
  BY <1>1, <1>4 DEF Crash
<1>. QED
  BY <1>1, <1>2, <1>3, <1>4
  DEF Next, Requests, Record, Step, FileRequest, MqttRequest, Learn, DeviceMoves,
      RecordBuild, RecordWrite, EventBegin, RefreshRaises, RefreshReads, Enqueue, Mark,
      Save, Pop, vars

\* What a base got, the answer on its way to it and its queue are in order, each and in
\* this sequence, apart from what follows an id that a crash caught unsaved.
OrderInv ==
    /\ \A t \in Thread : Sorted(out[t], unsaved, Turns)
    /\ \A p \in Peer :
         /\ Sorted(got[p], unsaved, Turns) /\ Sorted(queue[p], unsaved, Turns)
         /\ Precede(Ids(got[p]) \ unsaved, Ids(queue[p]), Turns)
    /\ \A p \in Peer, t \in Thread : client[t] = p =>
         /\ Precede(Ids(got[p]) \ unsaved, Ids(out[t]), Turns)
         /\ Precede(Ids(out[t]) \ unsaved, Ids(queue[p]), Turns)

LEMMA OrderInit == Init => OrderInv
<1>1. SUFFICES ASSUME Init PROVE OrderInv
  OBVIOUS
<1>2. /\ \A t \in Thread : out[t] = <<>> /\ Ids(out[t]) = {}
      /\ \A p \in Peer : got[p] = <<>> /\ queue[p] = <<>> /\ Ids(got[p]) = {} /\ Ids(queue[p]) = {}
  BY <1>1, IdsEmpty DEF Init
<1>. QED  BY <1>2, SortedEmpty DEF OrderInv, Precede

LEMMA OrderStep ==
    ASSUME ControlQueueAssumption, CoreInv, PlacedIsRemembered, SourceInv, OnceInv, TurnInv,
           ServedAlone, OrderInv, [Next]_vars
    PROVE  OrderInv'
<1>. USE ControlQueueAssumption DEF CoreInv
<1>. USE DEF requestVars, recordVars, threadVars, gatewayVars
<1>0. /\ \A p \in Peer : Ids(got[p]) \subseteq Known /\ Ids(queue[p]) \subseteq Known
      /\ \A t \in Thread : Ids(out[t]) \subseteq Known
      /\ Known \subseteq Id
  <2>1. Turned \subseteq Ids(batch)
    BY DEF Turned, Ids
  <2>2. handled \cup unsaved \cup Turned \subseteq Known
    BY <2>1 DEF TurnInv
  <2>3. Ids(file) \subseteq FileId /\ Ids(issued) \subseteq MqttId
    BY IdsInSet DEF TypeOK
  <2>. QED  BY <2>2, <2>3, PlacedParts DEF Known, Id
<1>1. ASSUME UNCHANGED <<queue, out, got, unsaved>>,
             \A a \in Known, b \in Id : <<a, b>> \in Turns => <<a, b>> \in Turns',
             \A u \in Thread : client'[u] = client[u] \/ out[u] = <<>>
      PROVE  OrderInv'
  <2>1. ASSUME NEW x, Ids(x) \subseteq Known, Sorted(x, unsaved, Turns)
        PROVE  Sorted(x, unsaved, Turns')
    BY <1>0, <1>1, <2>1, SortedKept
  <2>2. ASSUME NEW A, A \subseteq Known, NEW B, B \subseteq Known, Precede(A, B, Turns)
        PROVE  Precede(A, B, Turns')
    BY <1>0, <1>1, <2>2 DEF Precede
  <2>3. \A t \in Thread : Sorted(out[t], unsaved, Turns')
    BY <1>0, <2>1 DEF OrderInv
  <2>4. \A p \in Peer : /\ Sorted(got[p], unsaved, Turns') /\ Sorted(queue[p], unsaved, Turns')
                        /\ Precede(Ids(got[p]) \ unsaved, Ids(queue[p]), Turns')
    BY <1>0, <2>1, <2>2 DEF OrderInv
  <2>5. ASSUME NEW p \in Peer, NEW t \in Thread, client'[t] = p
        PROVE  /\ Precede(Ids(got[p]) \ unsaved, Ids(out[t]), Turns')
               /\ Precede(Ids(out[t]) \ unsaved, Ids(queue[p]), Turns')
    <3>1. CASE client[t] = p
      BY <1>0, <2>2, <3>1 DEF OrderInv
    <3>2. CASE out[t] = <<>>
      BY <3>2, IdsEmpty DEF Precede
    <3>. QED  BY <1>1, <2>5, <3>1, <3>2
  <2>. QED  BY <1>1, <2>3, <2>4, <2>5 DEF OrderInv
<1>2. ASSUME UNCHANGED <<file, issued>>
      PROVE  Turns' = Turns
  BY <1>2 DEF Turns
<1>3. ASSUME NEW t \in Thread, Enqueue(t) PROVE OrderInv'
  <2>. DEFINE i == batch[pos]
  <2>1. /\ i \in Id /\ i \in Ids(batch) /\ pos \in DOMAIN batch /\ pos \in Nat
    BY <1>3, ElementOfSeq, LenProperties DEF Enqueue, BatchInv, TypeOK, Ids
  <2>2. Precede(handled \cup Turned, {i} \ handled, Turns)
    <3>1. ASSUME i \notin handled PROVE Precede(handled, {i}, Turns)
      BY <2>1, <3>1 DEF TurnInv, Precede
    <3>2. Precede(Turned, {i}, Turns)
      BY <2>1 DEF Turned, TurnInv, Sorted, Precede
    <3>. QED  BY <3>1, <3>2 DEF Precede
  <2>3. /\ UNCHANGED <<file, issued, got, out, unsaved, client>> /\ Turns' = Turns
        /\ \A p \in Peer : queue'[p] = queue[p]
                           \/ (i \notin handled /\ queue'[p] = Append(queue[p], i))
    BY <1>2, <1>3 DEF Enqueue
  <2>. HIDE DEF i
  <2>4. ASSUME i \notin handled
        PROVE  /\ \A p \in Peer : /\ Precede(Ids(got[p]) \ unsaved, {i}, Turns)
                                  /\ Precede(Ids(queue[p]) \ unsaved, {i}, Turns)
               /\ \A u \in Thread : Precede(Ids(out[u]) \ unsaved, {i}, Turns)
    BY <2>2, <2>4, PlacedParts DEF Precede
  <2>5. ASSUME NEW p \in Peer
        PROVE  /\ Sorted(queue'[p], unsaved, Turns)
               /\ \A A : /\ Precede(A, Ids(queue[p]), Turns)
                         /\ i \notin handled => Precede(A, {i}, Turns)
                         => Precede(A, Ids(queue'[p]), Turns)
    <3>1. CASE queue'[p] = queue[p]
      BY <3>1 DEF OrderInv
    <3>2. CASE i \notin handled /\ queue'[p] = Append(queue[p], i)
      <4>1. Ids(queue'[p]) = Ids(queue[p]) \cup {i} /\ queue[p] \in Seq(Id)
        BY <2>1, <3>2, IdsAppend DEF TypeOK
      <4>2. Sorted(queue'[p], unsaved, Turns)
        <5>1. Sorted(queue[p], unsaved, Turns)
          BY DEF OrderInv
        <5>2. Sorted(Append(queue[p], i), unsaved, Turns)
          BY <2>1, <2>4, <3>2, <4>1, <5>1, SortedAppend
        <5>. QED  BY <3>2, <5>2
      <4>. QED  BY <3>2, <4>1, <4>2 DEF Precede
    <3>. QED  BY <2>3, <3>1, <3>2
  <2>. QED  BY <2>3, <2>4, <2>5 DEF OrderInv
<1>4. ASSUME NEW t \in Thread, Pop(t) PROVE OrderInv'
  <2>. DEFINE b == client[t]
  <2>1. /\ b \in Peer /\ UNCHANGED <<file, issued, got, unsaved, client>> /\ Turns' = Turns
        /\ out'[t] = queue[b] /\ queue'[b] = <<>> /\ Ids(queue'[b]) = {}
        /\ \A u \in Thread \ {t} : out'[u] = out[u]
        /\ \A p \in Peer \ {b} : queue'[p] = queue[p]
    BY <1>2, <1>4, IdsEmpty DEF Pop, ClientInv, TypeOK
  <2>2. \A u \in Thread \ {t} : client[u] # b
    BY <2>1 DEF ServedAlone
  <2>. HIDE DEF b
  <2>3. \A u \in Thread : Sorted(out'[u], unsaved, Turns)
    BY <2>1 DEF OrderInv
  <2>4. \A p \in Peer : /\ Sorted(queue'[p], unsaved, Turns)
                        /\ Precede(Ids(got[p]) \ unsaved, Ids(queue'[p]), Turns)
    BY <2>1, SortedEmpty DEF OrderInv, Precede
  <2>5. ASSUME NEW p \in Peer, NEW u \in Thread, client[u] = p
        PROVE  /\ Precede(Ids(got[p]) \ unsaved, Ids(out'[u]), Turns)
               /\ Precede(Ids(out'[u]) \ unsaved, Ids(queue'[p]), Turns)
    <3>1. CASE u = t
      BY <2>1, <2>5, <3>1 DEF OrderInv, Precede, b
    <3>2. CASE u # t
      BY <2>1, <2>2, <2>5, <3>2 DEF OrderInv
    <3>. QED  BY <3>1, <3>2
  <2>. QED  BY <2>1, <2>3, <2>4, <2>5 DEF OrderInv
<1>5. ASSUME NEW t \in Thread, Send(t) PROVE OrderInv'
  <2>. DEFINE b == client[t]
  <2>1. /\ b \in Peer /\ UNCHANGED <<file, issued, queue, unsaved>> /\ Turns' = Turns
        /\ out'[t] = <<>> /\ Ids(out'[t]) = {} /\ client'[t] \notin Peer
        /\ \A u \in Thread \ {t} : out'[u] = out[u] /\ client'[u] = client[u]
        /\ \A p \in Peer : got'[p] = got[p] \/ (p = b /\ got'[p] = got[p] \o out[t])
    BY <1>2, <1>5, IdsEmpty DEF Send, ClientInv, TypeOK
  <2>2. \A u \in Thread \ {t} : client[u] # b
    BY <2>1 DEF ServedAlone
  <2>3. /\ Sorted(got[b] \o out[t], unsaved, Turns)
        /\ Ids(got[b] \o out[t]) = Ids(got[b]) \cup Ids(out[t])
        /\ Precede((Ids(got[b]) \cup Ids(out[t])) \ unsaved, Ids(queue[b]), Turns)
    <3>1. got[b] \in Seq(Id) /\ out[t] \in Seq(Id)
      BY <2>1 DEF TypeOK
    <3>2. /\ Sorted(got[b], unsaved, Turns) /\ Sorted(out[t], unsaved, Turns)
          /\ Precede(Ids(got[b]) \ unsaved, Ids(out[t]), Turns)
          /\ Precede(Ids(got[b]) \ unsaved, Ids(queue[b]), Turns)
          /\ Precede(Ids(out[t]) \ unsaved, Ids(queue[b]), Turns)
      BY <2>1 DEF OrderInv
    <3>3. Precede((Ids(got[b]) \cup Ids(out[t])) \ unsaved, Ids(queue[b]), Turns)
      BY <3>2 DEF Precede
    <3>. QED  BY <3>1, <3>2, <3>3, SortedConcat, IdsConcat
  <2>. HIDE DEF b
  <2>4. \A u \in Thread : Sorted(out'[u], unsaved, Turns)
    BY <2>1, SortedEmpty DEF OrderInv
  <2>5. \A p \in Peer : /\ Sorted(got'[p], unsaved, Turns)
                        /\ Precede(Ids(got'[p]) \ unsaved, Ids(queue[p]), Turns)
    BY <2>1, <2>3 DEF OrderInv
  <2>6. ASSUME NEW p \in Peer, NEW u \in Thread, client'[u] = p
        PROVE  /\ Precede(Ids(got'[p]) \ unsaved, Ids(out'[u]), Turns)
               /\ Precede(Ids(out'[u]) \ unsaved, Ids(queue[p]), Turns)
    <3>1. u # t /\ client[u] = p /\ out'[u] = out[u]
      BY <2>1, <2>6
    <3>2. got'[p] = got[p]
      BY <2>1, <2>2, <3>1
    <3>. QED  BY <3>1, <3>2 DEF OrderInv
  <2>. QED  BY <2>1, <2>4, <2>5, <2>6 DEF OrderInv
<1>6. CASE Crash
  <2>1. /\ UNCHANGED <<file, issued, got>> /\ Turns' = Turns /\ unsaved \subseteq unsaved'
        /\ \A t \in Thread : out'[t] = <<>> /\ Ids(out'[t]) = {}
        /\ \A p \in Peer : queue'[p] = <<>> /\ Ids(queue'[p]) = {}
    BY <1>2, <1>6, IdsEmpty DEF Crash
  <2>2. \A p \in Peer : Sorted(got[p], unsaved', Turns)
    BY <2>1, SortedKept DEF OrderInv
  <2>3. \A U : Sorted(<<>>, U, Turns)
    BY SortedEmpty
  <2>. QED  BY <2>1, <2>2, <2>3 DEF OrderInv, Precede
<1>7. ASSUME NEW t \in Thread,
             \/ \E p \in Peer : PollBegin(t, p)
             \/ EventBegin(t) \/ RefreshRaises(t) \/ RefreshReads(t) \/ Mark(t) \/ Save(t)
      PROVE  OrderInv'
  <2>1. /\ pc[t] # "send" /\ UNCHANGED <<file, issued, queue, out, got, unsaved>>
        /\ \A u \in Thread \ {t} : client'[u] = client[u]
    BY <1>7 DEF EventBegin, PollBegin, RefreshRaises, RefreshReads, Mark, Save, TypeOK
  <2>2. \A u \in Thread : client'[u] = client[u] \/ out[u] = <<>>
    BY <2>1 DEF OnceInv
  <2>. QED  BY <1>1, <1>2, <2>1, <2>2
<1>8. ASSUME NEW i \in FileId, FileRequest(i) PROVE OrderInv'
  <2>1. UNCHANGED <<queue, out, got, unsaved, client>>
    BY <1>8 DEF FileRequest
  <2>. QED  BY <1>1, <1>8, <2>1, FileTurns
<1>9. ASSUME NEW i \in MqttId, MqttRequest(i) PROVE OrderInv'
  <2>1. UNCHANGED <<queue, out, got, unsaved, client>>
    BY <1>9 DEF MqttRequest
  <2>. QED  BY <1>1, <1>9, <2>1, MqttTurns
<1>10. CASE (\E r \in Recorder : Record(r)) \/ UNCHANGED vars
  <2>1. UNCHANGED <<file, issued, queue, out, got, unsaved, client>>
    BY <1>10 DEF Record, Learn, DeviceMoves, RecordBuild, RecordWrite, vars
  <2>. QED  BY <1>1, <1>2, <2>1
<1>. QED
  BY <1>3, <1>4, <1>5, <1>6, <1>7, <1>8, <1>9, <1>10 DEF Next, Requests, Step

\* As long as a base polls only when its last poll is served, two requests of the file,
\* or two of MQTT, reach it in the order they were made, however many threads refresh
\* the queues and whatever saves and answers fail
\* (_refresh_control_requests, control_poll_handler).
THEOREM DeliveredInOrder ==
    ASSUME Overlap = FALSE
    PROVE  Spec => []InOrder
<1>1. Init => SourceInv /\ OnceInv /\ TurnInv /\ ServedAlone /\ OrderInv
  BY SourceInit, OnceInit, TurnInit, AloneInit, OrderInit, ControlQueueAssumption
<1>2. CoreInv /\ PlacedIsRemembered /\ (SourceInv /\ OnceInv /\ TurnInv /\ ServedAlone /\ OrderInv)
        /\ [Next]_vars => (SourceInv /\ OnceInv /\ TurnInv /\ ServedAlone /\ OrderInv)'
  BY SourceStep, OnceStep, TurnStep, AloneStep, OrderStep, ControlQueueAssumption
<1>3. OrderInv => InOrder
  <2>1. \A a, b : <<a, b>> \in Turns => InTurn(file, a, b) /\ InTurn(issued, a, b)
    BY DEF Turns
  <2>. QED  BY <2>1 DEF OrderInv, Sorted, InTurn, InOrder, Order
<1>. QED  BY <1>1, <1>2, <1>3, CoreInvariance, PlacedRemembered, PTL DEF Spec

-----------------------------------------------------------------------------
\* The variables of the mailbox.
Open == (Ids(file) \cup Ids(mqtt) \cup Ids(batch)) \ DecidedOn
Owed == [p \in Peer |-> OwedTo(p)]

\* A name for it keeps the theory of sequences out of steps that need none.
Join(s, u) == s \o u

LEMMA EmptyJoin ==
    ASSUME NEW S, NEW s \in Seq(S)
    PROVE  s \o <<>> = s /\ <<>> \o s = s /\ (Len(s) = 0 => s = <<>>) /\ Len(s) \in Nat
  OBVIOUS

LEMMA AppendLater ==
    ASSUME NEW S, NEW s \in Seq(S), NEW u \in Seq(S), NEW e \in S
    PROVE  Join(s, Append(u, e)) = Append(Join(s, u), e)
  BY DEF Join

LEMMA CutJoin ==
    ASSUME NEW S, NEW s \in Seq(S), NEW u \in Seq(S)
    PROVE  /\ SubSeq(Join(s, u), 1, Len(s)) = s
           /\ SubSeq(Join(s, u), Len(s) + 1, Len(Join(s, u))) = u
           /\ s # <<>> => Len(s) \in 1..Len(Join(s, u))
<1>1. Len(s \o u) = Len(s) + Len(u) /\ Len(s) \in Nat /\ Len(u) \in Nat
  OBVIOUS
<1>2. s # <<>> => Len(s) # 0
  BY EmptyJoin
<1>3. /\ SubSeq(s \o u, 1, Len(s)) = s
      /\ SubSeq(s \o u, Len(s) + 1, Len(s \o u)) = u
  OBVIOUS
<1>. QED  BY <1>1, <1>2, <1>3 DEF Join

\* What a step of the mailbox is in terms of the channel.
LEMMA MailboxStep ==
    ASSUME \/ UNCHANGED <<Open, DecidedOn, Owed, got>>
           \/ \E i \in Id : /\ i \notin Open \cup DecidedOn
                            /\ Open' = Open \cup {i} /\ UNCHANGED <<DecidedOn, Owed, got>>
           \/ \E i \in Id, B \in SUBSET Peer :
                /\ i \in Open
                /\ Open' = Open \ {i} /\ DecidedOn' = DecidedOn \cup {i}
                /\ Owed' = [p \in Peer |-> IF p \in B THEN Append(Owed[p], i) ELSE Owed[p]]
                /\ got' = got
           \/ \E p \in Peer : \E n \in 1..Len(Owed[p]) :
                /\ Owed' = [Owed EXCEPT ![p] = SubSeq(@, n + 1, Len(@))]
                /\ got' \in {got, [got EXCEPT ![p] = @ \o SubSeq(Owed[p], 1, n)]}
                /\ UNCHANGED <<Open, DecidedOn>>
    PROVE  [Mailbox!Next]_Mailbox!vars
<1>. DEFINE o == Open w == Owed
<1>1. CASE UNCHANGED <<Open, DecidedOn, Owed, got>>
  BY <1>1 DEF Mailbox!vars, Open, Owed
<1>2. ASSUME NEW i \in Id, i \notin Open \cup DecidedOn, Open' = Open \cup {i},
             UNCHANGED <<DecidedOn, Owed, got>>
      PROVE  Mailbox!Submit(i)
  BY <1>2 DEF Mailbox!Submit, Open, Owed
<1>3. ASSUME NEW i \in Id, NEW B \in SUBSET Peer, i \in Open,
             Open' = Open \ {i}, DecidedOn' = DecidedOn \cup {i},
             Owed' = [p \in Peer |-> IF p \in B THEN Append(Owed[p], i) ELSE Owed[p]],
             got' = got
      PROVE  Mailbox!Decide(i, B)
  BY <1>3 DEF Mailbox!Decide, Open, Owed
<1>4. ASSUME NEW p \in Peer, NEW n \in 1..Len(Owed[p]),
             Owed' = [Owed EXCEPT ![p] = SubSeq(@, n + 1, Len(@))],
             got' \in {got, [got EXCEPT ![p] = @ \o SubSeq(Owed[p], 1, n)]},
             UNCHANGED <<Open, DecidedOn>>
      PROVE  /\ n \in 1..Len([q \in Peer |-> OwedTo(q)][p])
             /\ Mailbox!HandOver(p, n) \/ Mailbox!Lose(p, n)
  BY <1>4 DEF Mailbox!HandOver, Mailbox!Lose, Mailbox!TakeOff, Open, Owed
<1>. QED  BY <1>1, <1>2, <1>3, <1>4 DEF Mailbox!Next

LEMMA MailboxInit == Init => Mailbox!Init
<1>1. SUFFICES ASSUME Init PROVE Mailbox!Init
  OBVIOUS
<1>2. /\ Ids(file) = {} /\ Ids(mqtt) = {} /\ Ids(batch) = {} /\ handled = {} /\ batch = <<>>
  BY <1>1, IdsEmpty DEF Init
<1>3. DecidedOn = {}
  BY <1>2 DEF DecidedOn
<1>4. \A p \in Peer : OwedTo(p) = <<>>
  <2>1. <<>> \o <<>> = <<>>
    OBVIOUS
  <2>. QED  BY <1>1, <2>1 DEF Init, OwedTo
<1>. QED  BY <1>1, <1>2, <1>3, <1>4 DEF Mailbox!Init, Init

\* Every step of the channel is a step of the mailbox, or none.
LEMMA MailboxSimulation ==
    ASSUME ControlQueueAssumption, "crash" \notin Faults, CoreInv, SourceInv, OnceInv, TurnInv,
           ServedAlone, ServedAlone', [Next]_vars
    PROVE  [Mailbox!Next]_Mailbox!vars
<1>. USE ControlQueueAssumption DEF CoreInv
<1>. USE DEF requestVars, recordVars, threadVars, gatewayVars
<1>0. DecidedOn = handled \cup Turned /\ Turned \subseteq Ids(batch)
  BY DEF DecidedOn, Turned, Ids
<1>1. ASSUME UNCHANGED <<queue, out, client>> PROVE UNCHANGED Owed
  BY <1>1 DEF Owed, OwedTo
<1>2. ASSUME UNCHANGED <<handled, batch, pos>> PROVE UNCHANGED DecidedOn
  BY <1>2 DEF DecidedOn
<1>3. ASSUME UNCHANGED <<file, mqtt, batch, DecidedOn>> PROVE UNCHANGED Open
  BY <1>3 DEF Open
<1>k. handled \cup Ids(mqtt) \cup Ids(batch) \subseteq Known /\ DecidedOn \subseteq Known
  BY <1>0 DEF TurnInv, SourceInv, Known
<1>4. ASSUME NEW i \in FileId, FileRequest(i) PROVE [Mailbox!Next]_Mailbox!vars
  <2>1. /\ UNCHANGED <<mqtt, batch, DecidedOn, Owed, got>> /\ i \in Id
    BY <1>1, <1>2, <1>4 DEF FileRequest, Id
  <2>2. Ids(file') = Ids(file) \cup {i} /\ i \notin Known
    BY <1>4, FileTurns
  <2>3. Open' = Open \cup {i} /\ i \notin Open \cup DecidedOn
    BY <1>k, <2>1, <2>2 DEF Open, Known
  <2>. QED  BY <2>1, <2>3, MailboxStep
<1>5. ASSUME NEW i \in MqttId, MqttRequest(i) PROVE [Mailbox!Next]_Mailbox!vars
  <2>1. /\ UNCHANGED <<file, batch, DecidedOn, Owed, got>> /\ i \in Id
    BY <1>1, <1>2, <1>5 DEF MqttRequest, Id
  <2>2. Ids(mqtt') = Ids(mqtt) \cup {i}
    BY <1>5, IdsAppend DEF MqttRequest, TypeOK
  <2>3. i \notin Known
    BY <1>5, MqttTurns
  <2>4. Open' = Open \cup {i} /\ i \notin Open \cup DecidedOn
    BY <1>k, <2>1, <2>2, <2>3 DEF Open, Known
  <2>. QED  BY <2>1, <2>4, MailboxStep
<1>6. ASSUME NEW t \in Thread, RefreshReads(t) PROVE [Mailbox!Next]_Mailbox!vars
  <2>1. /\ UNCHANGED <<file, handled, Owed, got>> /\ mqtt' = <<>> /\ Ids(mqtt') = {}
        /\ batch = <<>> /\ Ids(batch) = {} /\ DecidedOn = handled
    BY <1>0, <1>1, <1>6, IdsEmpty DEF RefreshReads, BatchInv
  <2>2. Ids(file \o mqtt) = Ids(file) \cup Ids(mqtt)
    <3>1. file \in Seq(Id) /\ mqtt \in Seq(Id)
      BY DEF TypeOK, Id
    <3>. QED  BY <3>1, IdsConcat
  <2>3. CASE Fresh(file \o mqtt) = {}
    <3>1. UNCHANGED <<batch, pos>> /\ DecidedOn' = handled
      BY <1>2, <1>6, <2>1, <2>3 DEF RefreshReads
    <3>2. Open' = Open
      BY <2>1, <2>2, <2>3, <3>1 DEF Open, Fresh
    <3>. QED  BY <2>1, <3>1, <3>2, MailboxStep
  <2>4. CASE Fresh(file \o mqtt) # {}
    <3>1. batch' = file \o mqtt /\ pos' = 1
      BY <1>6, <2>4 DEF RefreshReads
    <3>2. DecidedOn' = handled
      <4>1. file \o mqtt \in Seq(Id)
        BY ConcatProperties DEF TypeOK, Id
      <4>. QED  BY <2>1, <3>1, <4>1, LenProperties DEF DecidedOn
    <3>3. Open' = Open
      BY <2>1, <2>2, <3>1, <3>2 DEF Open
    <3>. QED  BY <2>1, <3>2, <3>3, MailboxStep
  <2>. QED  BY <2>3, <2>4
<1>7. ASSUME NEW t \in Thread, Enqueue(t) PROVE [Mailbox!Next]_Mailbox!vars
  <2>. DEFINE i == batch[pos]
  <2>1. /\ i \in Id /\ i \in Ids(batch) /\ pos \in DOMAIN batch /\ pos \in Nat
        /\ \A n \in DOMAIN batch : n \in Nat
    BY <1>7, ElementOfSeq, LenProperties DEF Enqueue, BatchInv, TypeOK, Ids
  <2>2. DecidedOn' = DecidedOn \cup {i}
    <3>1. UNCHANGED <<handled, batch>> /\ pos' = pos + 1
      BY <1>7 DEF Enqueue
    <3>2. {k \in DOMAIN batch : k < pos + 1} = {k \in DOMAIN batch : k < pos} \cup {pos}
      BY <2>1
    <3>. QED  BY <3>1, <3>2 DEF DecidedOn
  <2>3. UNCHANGED <<file, mqtt, batch, out, client, got>>
    BY <1>7 DEF Enqueue
  <2>4. i \notin Turned
    BY <2>1 DEF SourceInv, Once, Turned
  <2>5. CASE i \in handled
    <3>1. DecidedOn' = DecidedOn
      BY <1>0, <2>2, <2>5
    <3>2. queue' = queue
      BY <1>7, <2>5 DEF Enqueue, TypeOK
    <3>. QED  BY <1>1, <1>3, <2>3, <3>1, <3>2, MailboxStep
  <2>6. CASE i \notin handled
    <3>1. i \in Open
      BY <1>0, <2>1, <2>4, <2>6 DEF Open
    <3>2. Open' = Open \ {i}
      BY <2>2, <2>3 DEF Open
    <3>3. Targets(i) \in SUBSET Peer
      BY <2>1 DEF Targets, TypeOK
    <3>4. \A p \in Peer : queue'[p] = IF p \in Targets(i) THEN Append(queue[p], i) ELSE queue[p]
      BY <1>7, <2>6 DEF Enqueue
    <3>. HIDE DEF i
    <3>5. ASSUME NEW p \in Peer
          PROVE  OwedTo(p)' = IF p \in Targets(i) THEN Append(OwedTo(p), i) ELSE OwedTo(p)
      <4>1. CASE \E u \in Thread : client[u] = p
        <5>1. PICK u \in Thread : /\ OwedTo(p) = Join(out[u], queue[p])
                                  /\ OwedTo(p)' = Join(out[u], queue'[p])
          BY <2>3, <4>1 DEF OwedTo, Join
        <5>2. out[u] \in Seq(Id) /\ queue[p] \in Seq(Id)
          BY DEF TypeOK
        <5>3. Join(out[u], Append(queue[p], i)) = Append(Join(out[u], queue[p]), i)
          BY <2>1, <5>2, AppendLater
        <5>. QED  BY <3>4, <5>1, <5>3
      <4>2. CASE ~ \E u \in Thread : client[u] = p
        BY <2>3, <3>4, <4>2 DEF OwedTo
      <4>. QED  BY <4>1, <4>2
    <3>6. Owed' = [p \in Peer |-> IF p \in Targets(i) THEN Append(Owed[p], i) ELSE Owed[p]]
      BY <3>5 DEF Owed
    <3>. QED  BY <2>1, <2>2, <2>3, <3>1, <3>2, <3>3, <3>6, MailboxStep
  <2>. QED  BY <2>5, <2>6
<1>8. ASSUME NEW t \in Thread, Mark(t) PROVE [Mailbox!Next]_Mailbox!vars
  <2>1. UNCHANGED <<file, mqtt, batch, Owed, got>>
    BY <1>1, <1>8 DEF Mark
  <2>2. Turned = Ids(batch) /\ pos' = pos
    BY <1>8, LenProperties DEF Mark, BatchInv, TypeOK, Turned, Ids
  <2>3. DecidedOn' = DecidedOn
    BY <1>0, <1>8, <2>1, <2>2 DEF Mark, DecidedOn, Turned
  <2>. QED  BY <1>3, <2>1, <2>3, MailboxStep
<1>9. ASSUME NEW t \in Thread, Save(t) PROVE [Mailbox!Next]_Mailbox!vars
  <2>1. UNCHANGED <<file, mqtt, handled, Owed, got>> /\ batch' = <<>> /\ Ids(batch') = {}
        /\ Ids(batch) \subseteq handled
    BY <1>1, <1>9, IdsEmpty DEF Save, BatchInv
  <2>2. DecidedOn = handled /\ DecidedOn' = handled
    BY <1>0, <2>1 DEF DecidedOn
  <2>3. Open' = Open
    BY <2>1, <2>2 DEF Open
  <2>. QED  BY <2>1, <2>2, <2>3, MailboxStep
<1>o. /\ \A p \in Peer, t \in Thread :
           /\ client[t] = p => Owed[p] = Join(out[t], queue[p])
           /\ client'[t] = p => Owed'[p] = Join(out'[t], queue'[p])
      /\ \A p \in Peer :
           /\ (\A t \in Thread : client[t] # p) => Owed[p] = queue[p]
           /\ (\A t \in Thread : client'[t] # p) => Owed'[p] = queue'[p]
      /\ Owed = [p \in Peer |-> Owed[p]] /\ Owed' = [p \in Peer |-> Owed'[p]]
  <2>1. ASSUME NEW p \in Peer, NEW t \in Thread, client[t] = p
        PROVE  OwedTo(p) = Join(out[t], queue[p])
    <3>1. (CHOOSE u \in Thread : client[u] = p) = t
      BY <2>1 DEF ServedAlone
    <3>. QED  BY <2>1, <3>1 DEF OwedTo, Join
  <2>2. ASSUME NEW p \in Peer, NEW t \in Thread, client'[t] = p
        PROVE  Owed'[p] = Join(out'[t], queue'[p])
    <3>1. (CHOOSE u \in Thread : client'[u] = p) = t
      BY <2>2 DEF ServedAlone
    <3>. QED  BY <2>2, <3>1 DEF Owed, OwedTo, Join
  <2>3. \A p \in Peer :
           /\ (\A t \in Thread : client[t] # p) => Owed[p] = queue[p]
           /\ (\A t \in Thread : client'[t] # p) => Owed'[p] = queue'[p]
    BY DEF Owed, OwedTo
  <2>4. Owed = [p \in Peer |-> Owed[p]] /\ Owed' = [p \in Peer |-> Owed'[p]]
    BY DEF Owed
  <2>. QED  BY <2>1, <2>2, <2>3, <2>4 DEF Owed
<1>u. ASSUME \A q \in Peer : Owed'[q] = Owed[q] PROVE UNCHANGED Owed
  BY <1>o, <1>u
<1>e. \A p \in Peer : Join(queue[p], <<>>) = queue[p] /\ Join(<<>>, queue[p]) = queue[p]
  BY EmptyJoin DEF TypeOK, Join
<1>10. ASSUME NEW t \in Thread, NEW p \in Peer, PollBegin(t, p) PROVE [Mailbox!Next]_Mailbox!vars
  <2>1. /\ UNCHANGED <<file, mqtt, handled, batch, pos, queue, out, got>>
        /\ out[t] = <<>> /\ client'[t] = p
        /\ \A u \in Thread \ {t} : client'[u] = client[u]
    BY <1>10 DEF PollBegin, OnceInv, TypeOK
  <2>2. ASSUME NEW q \in Peer PROVE Owed'[q] = Owed[q]
    <3>1. CASE \E u \in Thread \ {t} : client[u] = q
      BY <1>o, <2>1, <3>1
    <3>2. CASE \A u \in Thread \ {t} : client[u] # q
      <4>1. Owed[q] = queue[q]
        BY <1>e, <1>o, <2>1, <3>2
      <4>2. Owed'[q] = queue[q]
        BY <1>e, <1>o, <2>1, <3>2
      <4>. QED  BY <4>1, <4>2
    <3>. QED  BY <3>1, <3>2
  <2>3. UNCHANGED Owed
    BY <1>u, <2>2
  <2>. QED  BY <1>2, <1>3, <2>1, <2>3, MailboxStep
<1>11. ASSUME NEW t \in Thread, Pop(t) PROVE [Mailbox!Next]_Mailbox!vars
  <2>. DEFINE b == client[t]
  <2>1. /\ UNCHANGED <<file, mqtt, handled, batch, pos, client, got>>
        /\ b \in Peer /\ out[t] = <<>> /\ out'[t] = queue[b] /\ queue'[b] = <<>>
        /\ \A u \in Thread \ {t} : out'[u] = out[u]
        /\ \A p \in Peer \ {b} : queue'[p] = queue[p]
    BY <1>11 DEF Pop, ClientInv, OnceInv, TypeOK
  <2>2. ASSUME NEW q \in Peer PROVE Owed'[q] = Owed[q]
    <3>1. CASE q = b
      BY <1>e, <1>o, <2>1, <3>1
    <3>2. CASE q # b
      BY <1>o, <2>1, <3>2
    <3>. QED  BY <3>1, <3>2
  <2>3. UNCHANGED Owed
    BY <1>u, <2>2
  <2>. QED  BY <1>2, <1>3, <2>1, <2>3, MailboxStep
<1>12. ASSUME NEW t \in Thread, Send(t) PROVE [Mailbox!Next]_Mailbox!vars
  <2>. DEFINE b == client[t]
              n == Len(out[t])
  <2>1. /\ UNCHANGED <<file, mqtt, handled, batch, pos, queue>>
        /\ b \in Peer /\ client'[t] \notin Peer
        /\ \A u \in Thread \ {t} : out'[u] = out[u] /\ client'[u] = client[u] /\ client[u] # b
        /\ got' \in {got, [got EXCEPT ![b] = @ \o out[t]]}
    BY <1>12 DEF Send, ClientInv, ServedAlone, TypeOK
  <2>2. UNCHANGED <<Open, DecidedOn>>
    BY <1>2, <1>3, <2>1
  <2>3. Owed[b] = Join(out[t], queue[b]) /\ Owed'[b] = queue[b]
    BY <1>o, <2>1
  <2>4. \A q \in Peer \ {b} : Owed'[q] = Owed[q]
    BY <1>o, <2>1
  <2>5. /\ out[t] \in Seq(Id) /\ queue[b] \in Seq(Id) /\ got[b] \in Seq(Id)
    BY <2>1 DEF TypeOK
  <2>6. CASE out[t] = <<>>
    <3>1. Owed'[b] = Owed[b]
      BY <1>e, <2>1, <2>3, <2>6
    <3>2. got[b] \o out[t] = got[b]
      BY <2>5, <2>6, EmptyJoin
    <3>3. UNCHANGED Owed
      BY <1>u, <2>4, <3>1
    <3>4. got' = got
      BY <2>1, <3>2 DEF TypeOK
    <3>. QED  BY <2>2, <3>3, <3>4, MailboxStep
  <2>7. CASE out[t] # <<>>
    <3>. HIDE DEF b
    <3>1. /\ SubSeq(Join(out[t], queue[b]), 1, n) = out[t]
          /\ SubSeq(Join(out[t], queue[b]), n + 1, Len(Join(out[t], queue[b]))) = queue[b]
          /\ n \in 1..Len(Join(out[t], queue[b]))
      <4>1. ASSUME NEW x \in Seq(Id), NEW y \in Seq(Id), x # <<>>
            PROVE  /\ SubSeq(Join(x, y), 1, Len(x)) = x
                   /\ SubSeq(Join(x, y), Len(x) + 1, Len(Join(x, y))) = y
                   /\ Len(x) \in 1..Len(Join(x, y))
        BY <4>1, CutJoin
      <4>. QED  BY <2>5, <2>7, <4>1, Zenon
    <3>. HIDE DEF n
    <3>2. Owed' = [Owed EXCEPT ![b] = SubSeq(@, n + 1, Len(@))]
      BY <1>o, <2>1, <2>3, <2>4, <3>1
    <3>3. got' \in {got, [got EXCEPT ![b] = @ \o SubSeq(Owed[b], 1, n)]}
      BY <2>1, <2>3, <3>1
    <3>4. n \in 1..Len(Owed[b])
      BY <2>3, <3>1
    <3>. QED  BY <2>1, <2>2, <3>2, <3>3, <3>4, MailboxStep
  <2>. QED  BY <2>6, <2>7
<1>13. CASE \/ \E r \in Recorder : Record(r)
            \/ \E t \in Thread : EventBegin(t) \/ RefreshRaises(t)
            \/ UNCHANGED vars
  <2>1. UNCHANGED <<file, mqtt, handled, batch, pos, queue, out, client, got>>
    BY <1>13
    DEF Record, Learn, DeviceMoves, RecordBuild, RecordWrite, EventBegin, RefreshRaises, vars
  <2>. QED  BY <1>1, <1>2, <1>3, <2>1, MailboxStep
<1>14. ~ Crash
  BY DEF Crash
<1>. QED
  BY <1>4, <1>5, <1>6, <1>7, <1>8, <1>9, <1>10, <1>11, <1>12, <1>13, <1>14
  DEF Next, Requests, Step

\* As long as the gateway does not crash and a base polls only when its last poll is
\* served, the channel is a mailbox per base: every request is decided on once, for
\* bases that are then owed it, and each base receives what it is owed in order, or
\* loses the answer it was sent; whatever threads refresh, fail or record meanwhile
\* (_refresh_control_requests, take_control_poll_lines, control_poll_handler).
THEOREM MailboxImplemented ==
    ASSUME Overlap = FALSE, "crash" \notin Faults
    PROVE  Spec => ImplementsMailbox
<1>1. Init => SourceInv /\ OnceInv /\ TurnInv /\ ServedAlone
  BY SourceInit, OnceInit, TurnInit, AloneInit, ControlQueueAssumption
<1>2. CoreInv /\ PlacedIsRemembered /\ (SourceInv /\ OnceInv /\ TurnInv /\ ServedAlone)
        /\ [Next]_vars => (SourceInv /\ OnceInv /\ TurnInv /\ ServedAlone)'
  BY SourceStep, OnceStep, TurnStep, AloneStep, ControlQueueAssumption
<1>3. CoreInv /\ (SourceInv /\ OnceInv /\ TurnInv /\ ServedAlone) /\ ServedAlone' /\ [Next]_vars
        => [Mailbox!Next]_Mailbox!vars
  BY MailboxSimulation, ControlQueueAssumption
<1>. QED
  BY <1>1, <1>2, <1>3, MailboxInit, CoreInvariance, PlacedRemembered, PTL
  DEF Spec, Mailbox!Spec, ImplementsMailbox
=============================================================================
