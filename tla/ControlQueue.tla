---------------------------- MODULE ControlQueue ----------------------------
(***************************************************************************)
(* The /gwctl command channel of gigaset_gateway.py.                        *)
(*                                                                          *)
(* Requests reach the gateway through the request file and through MQTT.    *)
(* A connection thread (a /gwctl poll of a base station, or its HTTPS event *)
(* long poll) runs _refresh_control_requests under command_lock: it moves   *)
(* every new request into the queue of each base the request is for,        *)
(* remembers its id, and saves the ids.  A /gwctl poll then pops the queue  *)
(* of its own base and sends it in the HTTP answer.                         *)
(*                                                                          *)
(* A request is its id; Device, Hint and Invalid say what else the code     *)
(* looks at.  A base is its peer address, and stands for its base_key.      *)
(***************************************************************************)
EXTENDS Naturals, Sequences

CONSTANTS
    Thread,         \* connection threads, taking commands
    Recorder,       \* connection threads inside record()
    Peer,           \* base stations
    Device,         \* end nodes
    FileId, MqttId, \* ids of requests of the file and of MQTT
    None,           \* "no value" (None or an empty string)
    DeviceOf,       \* the device each request is for, or None
    HintOf,         \* its field "base", or None
    Invalid,        \* file requests normalize_control_request refuses
    Faults,         \* fault kinds that may happen: "crash" "send" "save" "read"
    MaxFaults,      \* bound: how many of them
    Overlap         \* may a base poll again while its last poll is served?

Id == FileId \cup MqttId

ASSUME ControlQueueAssumption ==
    /\ None \notin Thread \cup Peer \cup Device
    /\ FileId \cap MqttId = {}
    /\ Invalid \subseteq FileId
    /\ DeviceOf \in [Id -> Device \cup {None}] /\ HintOf \in [Id -> Peer \cup {None}]
    /\ Faults \subseteq {"crash", "send", "save", "read"}
    /\ MaxFaults \in Nat /\ Overlap \in BOOLEAN

VARIABLES
    file,       \* the request file: ids in the order written
    mqtt,       \* mqtt_control_requests
    pc,         \* where each thread is
    client,     \* the base each thread serves; None for an event long poll
    lock,       \* holder of command_lock
    batch, pos, \* locals of the refresh in progress: requests read, next index
    queue,      \* control_poll_queues
    out,        \* the requests a thread has popped and not yet sent
    handled,    \* handled_control_ids
    keys,       \* the peers of base_keys_seen
    deviceBase, \* device_base
    disk,       \* gigaset_command_state.json
    rpc, snap,  \* where each recorder is; the document it is about to write
    got,        \* history: the requests each base received
    issued,     \* history: the MQTT ids handed out, in order
    unsaved,    \* history: ids enqueued but not on disk when the gateway died
    faults      \* faults so far

gatewayVars == <<handled, keys, deviceBase>>
requestVars == <<file, mqtt, issued>>
recordVars  == <<rpc, snap>>
threadVars  == <<pc, client, lock, batch, pos>>
vars == <<requestVars, threadVars, queue, out, gatewayVars, disk, recordVars, got,
          unsaved, faults>>

Ids(s) == {s[n] : n \in DOMAIN s}

Memory == [handled |-> handled, keys |-> keys, deviceBase |-> deviceBase]

\* What a recorder that writes nothing holds.
NoDocument == [handled |-> {}, keys |-> {}, deviceBase |-> [d \in Device |-> None]]

Init ==
    /\ file = <<>> /\ mqtt = <<>> /\ issued = <<>>
    /\ pc = [t \in Thread |-> "idle"]
    /\ client = [t \in Thread |-> None]
    /\ lock = None /\ batch = <<>> /\ pos = 1
    /\ queue = [p \in Peer |-> <<>>]
    /\ out = [t \in Thread |-> <<>>]
    /\ handled = {} /\ keys = {} /\ deviceBase = [d \in Device |-> None]
    /\ disk = NoDocument
    /\ rpc = [r \in Recorder |-> "idle"] /\ snap = [r \in Recorder |-> NoDocument]
    /\ got = [p \in Peer |-> <<>>]
    /\ unsaved = {} /\ faults = 0

-----------------------------------------------------------------------------
(* Where requests and routing knowledge come from *)

\* The user adds a request to the file, under an id of its own.
FileRequest(i) ==
    /\ i \notin Ids(file)
    /\ file' = Append(file, i)
    /\ UNCHANGED <<mqtt, issued, threadVars, queue, out, gatewayVars, disk, recordVars,
                   got, unsaved, faults>>

\* request_control_action: an MQTT request gets a fresh id and waits in memory.
MqttRequest(i) ==
    /\ i \notin Ids(issued)
    /\ issued' = Append(issued, i)
    /\ mqtt' = Append(mqtt, i)
    /\ UNCHANGED <<file, threadVars, queue, out, gatewayVars, disk, recordVars, got,
                   unsaved, faults>>

\* A recorder has changed the state in memory and is to save it.
Due(r) == rpc[r] = "idle" /\ rpc' = [rpc EXCEPT ![r] = "due"]

\* record: the base reports in for the first time.
Learn(r, p) ==
    /\ Due(r) /\ p \notin keys
    /\ keys' = keys \cup {p}
    /\ UNCHANGED <<requestVars, threadVars, queue, out, handled, deviceBase, disk, snap, got,
                   unsaved, faults>>

\* record: an event of device d arrives through base p, or (p = None) its
\* "deleted" event; or the user forgets the device.
DeviceMoves(r, d, p) ==
    /\ Due(r) /\ deviceBase[d] # p
    /\ deviceBase' = [deviceBase EXCEPT ![d] = p]
    /\ UNCHANGED <<requestVars, threadVars, queue, out, handled, keys, disk, snap, got,
                   unsaved, faults>>

\* Its _save_command_state, which takes no lock: first the document is put
\* together, ...
RecordBuild(r) ==
    /\ rpc[r] = "due"
    /\ snap' = [snap EXCEPT ![r] = Memory]
    /\ rpc' = [rpc EXCEPT ![r] = "write"]
    /\ UNCHANGED <<requestVars, threadVars, queue, out, gatewayVars, disk, got, unsaved, faults>>

\* ... then written, perhaps over a younger one.
RecordWrite(r) ==
    /\ rpc[r] = "write"
    /\ disk' = snap[r]
    /\ snap' = [snap EXCEPT ![r] = NoDocument]
    /\ rpc' = [rpc EXCEPT ![r] = "idle"]
    /\ UNCHANGED <<requestVars, threadVars, queue, out, gatewayVars, got, unsaved, faults>>

-----------------------------------------------------------------------------
(* A connection thread *)

\* The base's gwctl polls (control_poll_handler).
PollBegin(t, p) ==
    /\ pc[t] = "idle"
    /\ Overlap \/ \A u \in Thread : client[u] # p
    /\ pc' = [pc EXCEPT ![t] = "refresh"]
    /\ client' = [client EXCEPT ![t] = p]
    /\ UNCHANGED <<requestVars, lock, batch, pos, queue, out, gatewayVars, disk, recordVars,
                   got, unsaved, faults>>

\* A round of the event long poll (next_event_command) refreshes as well.
EventBegin(t) ==
    /\ pc[t] = "idle"
    /\ pc' = [pc EXCEPT ![t] = "refresh"]
    /\ UNCHANGED <<requestVars, client, lock, batch, pos, queue, out, gatewayVars, disk,
                   recordVars, got, unsaved, faults>>

\* Where a thread goes when its refresh returns or raises.
AfterRefresh(t) == IF client[t] = None THEN "idle" ELSE "pop"

Fresh(s) == Ids(s) \ handled
Refused  == Fresh(file) \cap Invalid # {}

\* _refresh_control_requests, reading: a new request the code refuses raises
\* ValueError before the MQTT list is drained.
RefreshRaises(t) ==
    /\ pc[t] = "refresh" /\ lock = None
    /\ \/ Refused /\ UNCHANGED faults
       \/ "read" \in Faults /\ faults < MaxFaults /\ faults' = faults + 1
    /\ pc' = [pc EXCEPT ![t] = AfterRefresh(t)]
    /\ UNCHANGED <<requestVars, client, lock, batch, pos, queue, out, gatewayVars, disk,
                   recordVars, got, unsaved>>

\* Otherwise it takes the new requests of the file, then those of MQTT.
RefreshReads(t) ==
    /\ pc[t] = "refresh" /\ lock = None
    /\ ~ Refused
    /\ mqtt' = <<>>
    /\ IF Fresh(file \o mqtt) = {}
         THEN /\ pc' = [pc EXCEPT ![t] = AfterRefresh(t)]
              /\ UNCHANGED <<lock, batch, pos>>
         ELSE /\ pc' = [pc EXCEPT ![t] = "enqueue"]
              /\ lock' = t /\ batch' = file \o mqtt /\ pos' = 1
    /\ UNCHANGED <<file, issued, client, queue, out, gatewayVars, disk, recordVars, got,
                   unsaved, faults>>

\* Mutants of Targets: a hint is ignored; a device not seen yet has no base.
TargetsEverywhere(i) == keys
TargetsSeenOnly(i) ==
    IF DeviceOf[i] # None THEN keys \cap {deviceBase[DeviceOf[i]]}
    ELSE IF HintOf[i] # None THEN keys \cap {HintOf[i]}
    ELSE {p \in keys : keys = {p}}

\* _resolve_target_peers
Targets(i) ==
    IF DeviceOf[i] # None
      THEN IF deviceBase[DeviceOf[i]] # None THEN {deviceBase[DeviceOf[i]]} ELSE keys
    ELSE IF HintOf[i] # None THEN keys \cap {HintOf[i]}
    ELSE {p \in keys : keys = {p}}

\* Mutant of Enqueue: the newest request goes first.
EnqueueFirst(t) ==
    /\ pc[t] = "enqueue"
    /\ LET i == batch[pos] IN
         queue' = [p \in Peer |-> IF i \notin handled /\ p \in Targets(i)
                                    THEN <<i>> \o queue[p] ELSE queue[p]]
    /\ pos' = pos + 1
    /\ pc' = [pc EXCEPT ![t] = IF pos < Len(batch) THEN "enqueue" ELSE "mark"]
    /\ UNCHANGED <<requestVars, client, lock, batch, out, gatewayVars, disk, recordVars, got,
                   unsaved, faults>>

\* One turn of the loop over the new requests, under control_poll_lock.
Enqueue(t) ==
    /\ pc[t] = "enqueue"
    /\ LET i == batch[pos] IN
         queue' = [p \in Peer |-> IF i \notin handled /\ p \in Targets(i)
                                    THEN Append(queue[p], i) ELSE queue[p]]
    /\ pos' = pos + 1
    /\ pc' = [pc EXCEPT ![t] = IF pos < Len(batch) THEN "enqueue" ELSE "mark"]
    /\ UNCHANGED <<requestVars, client, lock, batch, out, gatewayVars, disk, recordVars, got,
                   unsaved, faults>>

\* Mutant of Mark: the ids are not remembered.
MarkForgets(t) ==
    /\ pc[t] = "mark"
    /\ pc' = [pc EXCEPT ![t] = "save"]
    /\ UNCHANGED <<requestVars, client, lock, batch, pos, queue, out, gatewayVars, disk,
                   recordVars, got, unsaved, faults>>

Mark(t) ==
    /\ pc[t] = "mark"
    /\ handled' = handled \cup Ids(batch)
    /\ pc' = [pc EXCEPT ![t] = "save"]
    /\ UNCHANGED <<requestVars, client, lock, batch, pos, queue, out, keys, deviceBase, disk,
                   recordVars, got, unsaved, faults>>

\* _save_command_state, and release of command_lock.  A failed save is only logged.
Save(t) ==
    /\ pc[t] = "save"
    /\ \/ disk' = Memory /\ UNCHANGED faults
       \/ "save" \in Faults /\ faults < MaxFaults /\ faults' = faults + 1 /\ UNCHANGED disk
    /\ pc' = [pc EXCEPT ![t] = AfterRefresh(t)]
    /\ lock' = None /\ batch' = <<>> /\ pos' = 1
    /\ UNCHANGED <<requestVars, client, queue, out, gatewayVars, recordVars, got, unsaved>>

\* Mutants of Pop: the queue is read and left as it is; it is left without a list.
PopCopies(t) ==
    /\ pc[t] = "pop"
    /\ out' = [out EXCEPT ![t] = queue[client[t]]]
    /\ pc' = [pc EXCEPT ![t] = "send"]
    /\ UNCHANGED <<requestVars, client, lock, batch, pos, queue, gatewayVars, disk,
                   recordVars, got, unsaved, faults>>
PopLeavesNone(t) ==
    /\ pc[t] = "pop"
    /\ out' = [out EXCEPT ![t] = queue[client[t]]]
    /\ queue' = [queue EXCEPT ![client[t]] = None]
    /\ pc' = [pc EXCEPT ![t] = "send"]
    /\ UNCHANGED <<requestVars, client, lock, batch, pos, gatewayVars, disk, recordVars, got,
                   unsaved, faults>>

\* take_control_poll_lines: read destructively, never inside the loop of Enqueue,
\* which holds control_poll_lock.
Pop(t) ==
    /\ pc[t] = "pop"
    /\ \A u \in Thread : pc[u] # "enqueue"
    /\ out' = [out EXCEPT ![t] = queue[client[t]]]
    /\ queue' = [queue EXCEPT ![client[t]] = <<>>]
    /\ pc' = [pc EXCEPT ![t] = "send"]
    /\ UNCHANGED <<requestVars, client, lock, batch, pos, gatewayVars, disk, recordVars, got,
                   unsaved, faults>>

\* control_poll_handler: the answer arrives, or the connection is gone and the
\* OSError is swallowed.
Send(t) ==
    /\ pc[t] = "send"
    /\ \/ got' = [got EXCEPT ![client[t]] = @ \o out[t]] /\ UNCHANGED faults
       \/ "send" \in Faults /\ faults < MaxFaults /\ faults' = faults + 1 /\ UNCHANGED got
    /\ out' = [out EXCEPT ![t] = <<>>]
    /\ pc' = [pc EXCEPT ![t] = "idle"]
    /\ client' = [client EXCEPT ![t] = None]
    /\ UNCHANGED <<requestVars, lock, batch, pos, queue, gatewayVars, disk, recordVars, unsaved>>

-----------------------------------------------------------------------------
\* Ids some queue, some answer or some base holds.
Placed == (UNION {Ids(queue[p]) \cup Ids(got[p]) : p \in Peer})
            \cup (UNION {Ids(out[t]) : t \in Thread})

\* Mutant of Crash: __init__ does not read handled_control_ids.
CrashForgets ==
    /\ "crash" \in Faults /\ faults < MaxFaults /\ faults' = faults + 1
    /\ unsaved' = unsaved \cup (Placed \ disk.handled)
    /\ mqtt' = <<>>
    /\ pc' = [t \in Thread |-> "idle"] /\ client' = [t \in Thread |-> None]
    /\ lock' = None /\ batch' = <<>> /\ pos' = 1
    /\ queue' = [p \in Peer |-> <<>>] /\ out' = [t \in Thread |-> <<>>]
    /\ handled' = {} /\ keys' = disk.keys /\ deviceBase' = disk.deviceBase
    /\ rpc' = [r \in Recorder |-> "idle"] /\ snap' = [r \in Recorder |-> NoDocument]
    /\ UNCHANGED <<file, issued, disk, got>>

\* The process dies and Gateway.__init__ runs again on the saved state.
Crash ==
    /\ "crash" \in Faults /\ faults < MaxFaults /\ faults' = faults + 1
    /\ unsaved' = unsaved \cup (Placed \ disk.handled)
    /\ mqtt' = <<>>
    /\ pc' = [t \in Thread |-> "idle"] /\ client' = [t \in Thread |-> None]
    /\ lock' = None /\ batch' = <<>> /\ pos' = 1
    /\ queue' = [p \in Peer |-> <<>>] /\ out' = [t \in Thread |-> <<>>]
    /\ handled' = disk.handled /\ keys' = disk.keys /\ deviceBase' = disk.deviceBase
    /\ rpc' = [r \in Recorder |-> "idle"] /\ snap' = [r \in Recorder |-> NoDocument]
    /\ UNCHANGED <<file, issued, disk, got>>

Requests ==
    \/ \E i \in FileId : FileRequest(i)
    \/ \E i \in MqttId : MqttRequest(i)

Record(r) ==
    \/ \E p \in Peer : Learn(r, p)
    \/ \E d \in Device, p \in keys \cup {None} : DeviceMoves(r, d, p)
    \/ RecordBuild(r) \/ RecordWrite(r)

Step(t) ==
    RefreshRaises(t) \/ RefreshReads(t) \/ Enqueue(t) \/ Mark(t) \/ Save(t) \/ Pop(t) \/ Send(t)

Next ==
    \/ Requests
    \/ \E r \in Recorder : Record(r)
    \/ \E t \in Thread : EventBegin(t) \/ Step(t) \/ \E p \in Peer : PollBegin(t, p)
    \/ Crash

Spec == Init /\ [][Next]_vars

(***************************************************************************)
(* Fairness.  gwctl re-arms its timer before anything else, so a base that  *)
(* is up keeps polling; threads run on; a refresh is separated from the     *)
(* next one by a network round trip, so a waiting thread gets command_lock. *)
(***************************************************************************)
FairSpec ==
    /\ Spec
    /\ \A p \in Peer : SF_vars(\E t \in Thread : PollBegin(t, p))
    /\ \A t \in Thread :
         /\ SF_vars(RefreshReads(t) \/ RefreshRaises(t))
         /\ WF_vars(Enqueue(t) \/ Mark(t) \/ Save(t) \/ Send(t))
         /\ SF_vars(Pop(t))
-----------------------------------------------------------------------------
(* What the channel promises *)

Document == [handled : SUBSET Id, keys : SUBSET Peer,
             deviceBase : [Device -> Peer \cup {None}]]

TypeOK ==
    /\ file \in Seq(FileId) /\ mqtt \in Seq(MqttId) /\ issued \in Seq(MqttId)
    /\ pc \in [Thread -> {"idle", "refresh", "enqueue", "mark", "save", "pop", "send"}]
    /\ client \in [Thread -> Peer \cup {None}]
    /\ lock \in Thread \cup {None}
    /\ batch \in Seq(Id) /\ pos \in Nat \ {0}
    /\ queue \in [Peer -> Seq(Id)] /\ out \in [Thread -> Seq(Id)]
    /\ got \in [Peer -> Seq(Id)]
    /\ handled \subseteq Id /\ keys \subseteq Peer
    /\ deviceBase \in [Device -> Peer \cup {None}]
    /\ disk \in Document
    /\ rpc \in [Recorder -> {"idle", "due", "write"}] /\ snap \in [Recorder -> Document]
    /\ faults \in 0..MaxFaults
    /\ unsaved \subseteq Id

\* "Each request is executed once; the id is remembered" (README): no base receives
\* a request twice.
AtMostOnce ==
    \A p \in Peer : \A m, n \in DOMAIN got[p] : got[p][m] = got[p][n] => m = n

\* The same, but for the ids a crash caught enqueued and not on disk: the only way
\* to a second execution.
AtMostOnceIfSaved ==
    \A p \in Peer : \A m, n \in DOMAIN got[p] :
        got[p][m] = got[p][n] /\ got[p][m] \notin unsaved => m = n

\* Outside a refresh, every id a queue, an answer or a base holds is remembered
\* (handled_control_ids), so no later refresh can take it for a new one; during a
\* refresh the only others are those of the batch in hand.
PlacedIsRemembered ==
    Placed \subseteq handled \cup unsaved
                     \cup {batch[n] : n \in {k \in DOMAIN batch : k < pos}}

\* A request whose id is in the saved state never enters a queue again, whatever
\* crashes, saves and refreshes come between.
SavedNeverQueuedAgain ==
    [][\A p \in Peer : \A i \in disk.handled :
          i \in Ids(queue'[p]) => i \in Ids(queue[p])]_vars

\* A request for a base reaches that base only; one that names none reaches at
\* most one ("aby prikaz urceny pro jednu zakladnu neskoncil u druhe").
NoStrayRequest ==
    \A p \in Peer : \A i \in Ids(got[p]) \ unsaved :
        DeviceOf[i] = None =>
            /\ HintOf[i] \in {p, None}
            /\ \A q \in Peer : i \in Ids(got[q]) => q = p

\* Two requests of one source reach a base in the order they were made: pair_start
\* and pair_stop, or two alarm modes, never swap on the way.
Order(s) == \A p \in Peer : \A m, n \in DOMAIN got[p] : \A j, k \in DOMAIN s :
    (m < n /\ got[p][m] = s[j] /\ got[p][n] = s[k] /\ got[p][m] \notin unsaved) => j <= k
InOrder == Order(issued) /\ Order(file)

\* A pending request that has a base to go to gets to a base, unless the file then
\* holds an entry the code refuses.
Pending(i) == i \in (Ids(file) \cup Ids(mqtt)) \ handled
Addressable(i) ==
    IF DeviceOf[i] # None THEN keys # {} ELSE HintOf[i] \in keys
Received(i) == \E p \in Peer : i \in Ids(got[p])

RequestDelivered ==
    \A i \in Id \ Invalid :
        (Pending(i) /\ Addressable(i) /\ lock = None) ~> (Received(i) \/ Refused)

\* A request made over MQTT does not depend on the request file ("Dotaz od zakladny
\* je posledni okamzik, kdy jeste jde zachytit pozadavek z MQTT nebo ze souboru").
MqttDelivered ==
    \A i \in MqttId : (Pending(i) /\ Addressable(i) /\ lock = None) ~> Received(i)

-----------------------------------------------------------------------------
(* The channel as a mailbox per base *)

\* Requests decided on: remembered, or already enqueued by the refresh in hand.
DecidedOn == handled \cup {batch[n] : n \in {k \in DOMAIN batch : k < pos}}

\* What base p is still to receive: the answer being sent, then its queue.
OwedTo(p) ==
    IF \E t \in Thread : client[t] = p
      THEN out[CHOOSE t \in Thread : client[t] = p] \o queue[p]
      ELSE queue[p]

Mailbox == INSTANCE BaseMailbox WITH
    Request <- Id,
    Base <- Peer,
    open <- (Ids(file) \cup Ids(mqtt) \cup Ids(batch)) \ DecidedOn,
    decided <- DecidedOn,
    owed <- [p \in Peer |-> OwedTo(p)],
    got <- got

\* The channel implements the mailbox: under every interleaving of connection
\* threads, each base receives what was decided for it in order and once.
ImplementsMailbox == Mailbox!Spec
=============================================================================
