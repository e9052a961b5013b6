--------------------------- MODULE DeviceRegistry ---------------------------
(***************************************************************************)
(* What the gateway knows of the end nodes and of their bases, and what     *)
(* Home Assistant is shown of them: the state saved in gigaset_state.json,  *)
(* device_base and base_keys_seen, and the retained documents on the MQTT   *)
(* broker.                                                                  *)
(*                                                                          *)
(* A connection thread runs record() for each request of a base; paho's     *)
(* thread runs on_connect, which replays what is known, and on_message,     *)
(* which forgets a device or orders a setpoint.  Gateway.lock covers the    *)
(* changes of the state, not what is published of them.                     *)
(*                                                                          *)
(* Events and orders are numbered; a topic holds the number of the event it *)
(* shows.  One discovery document stands for those of a device or a base;   *)
(* it has the version of the gateway that wrote it and names the base.      *)
(***************************************************************************)
EXTENDS Naturals, Sequences, FiniteSets

CONSTANTS
    Device, Peer, None,
    OwnId,          \* the option base_id, when it is set
    Conn, Mqtt,     \* connection threads; paho's thread
    Kind,           \* kinds of events, of the keys of Sink
    Reconfigure,    \* may a restart come with another base_id?
    MaxEvents,      \* bound: events and orders
    MaxFaults       \* bound: restarts and broken connections to the broker, together

\* The sinks events come in by, and the topics a base or device of that kind is
\* shown by: a thermostat's state, also as its battery is put in, and its setpoint
\* report; a universal sensor's measurements; positions, calibration requests and
\* buttons, which are one sink.
Sink == [state |-> "state", inst |-> "state", report |-> "report", tp |-> "tp",
         press |-> "press", open |-> "ev", calreq |-> "ev", button |-> "ev"]
Carries == [state |-> {"temperature", "setpoint"}, inst |-> {}, report |-> {"setpoint"},
            tp |-> {"temperature", "pressure"}, press |-> {"pressure"},
            open |-> {"position", "calibration"}, calreq |-> {"calibration"}, button |-> {}]
Alphabet == [ev |-> 1, press |-> 2, report |-> 3, state |-> 4, tp |-> 5]

ASSUME DeviceRegistryAssumption ==
    /\ Mqtt \notin Conn /\ None \notin Peer \cup Device \cup {OwnId} /\ OwnId \notin Peer
    /\ Device \cap (Peer \cup {OwnId}) = {}
    /\ Kind \subseteq DOMAIN Sink
    /\ Reconfigure \in BOOLEAN
    /\ MaxEvents \in Nat /\ MaxFaults \in Nat

VARIABLES
    stored, owner, keyOf,   \* state, device_base, base_keys_seen
    baseId,                 \* the option base_id, or None
    announcedBases, announced, replaying,   \* announced_bases, and in the bridge
    ready,                  \* has self.mqtt been assigned?
    disk,                   \* the saved state, device_base and base_keys_seen
    connected, disc, baseDoc, value,    \* the broker: retained documents and values
    heard,                  \* per event, how often Home Assistant got it (button)
    latest,         \* history: per device and topic, the last event received
    crossed,        \* history: devices of which something was received before what was to
                    \* be published of them was
    missed,         \* history: devices of which a document or its removal was lost
    mixed,          \* history: keys retired while another thread named them
    exposed,        \* history: events a replay had before it when another replay ended
    pc, job, todo, group,   \* per thread: step, event at hand, replay and its base
    events, starts, drops   \* counters

mem    == <<stored, owner, keyOf>>
bridge == <<announcedBases, announced, replaying, ready>>
broker == <<disc, baseDoc, value, heard>>
thread == <<pc, job, todo, group>>
counts == <<events, starts, drops>>
past   == <<latest, crossed, missed, mixed, exposed>>
vars   == <<mem, baseId, bridge, disk, connected, broker, past, thread, counts>>

Thread == Conn \cup {Mqtt}
Number == 1..MaxEvents
Key    == Peer \cup {OwnId}
Topic  == UNION {Carries[k] : k \in Kind}
\* The topics of one sink alone.
OwnTopic == {t \in Topic : \A k, j \in Kind : t \in Carries[k] \cap Carries[j] => Sink[k] = Sink[j]}
Empty  == [t \in Topic |-> 0]
NoDoc  == [version |-> 0, via |-> None]
Event(p, b, d, k, n) == [peer |-> p, base |-> b, dev |-> d, kind |-> k, num |-> n]
NoJob  == Event(None, None, None, "none", 0)
NoTodo == [d \in Device |-> <<>>]

\* The keys of state; the events of a device are in the order of their dictionary.
Known == {d \in Device : stored[d] # <<>>}

\* Mutant of Put: an event is added to what the sink already holds.
PutAfter(s, k, n) == Append(s, [kind |-> k, num |-> n])
\* device[sink] = event: a known sink keeps its place.
Put(s, k, n) ==
    IF \E i \in DOMAIN s : Sink[s[i].kind] = Sink[k]
      THEN [i \in DOMAIN s |-> IF Sink[s[i].kind] = Sink[k] THEN [kind |-> k, num |-> n] ELSE s[i]]
      ELSE Append(s, [kind |-> k, num |-> n])
\* atomic_json_write sorts the keys: each entry has as its place how many are not after it.
Sorted(s) ==
    LET Letter(i) == Alphabet[Sink[s[i].kind]]
        Place(i)  == Cardinality({j \in DOMAIN s : Letter(j) < Letter(i)
                                                   \/ (Letter(j) = Letter(i) /\ j <= i)})
    IN  [n \in DOMAIN s |-> s[CHOOSE i \in DOMAIN s : Place(i) = n]]
SaveState(s) == disk' = [disk EXCEPT !.stored = [d \in Device |-> Sorted(s[d])]]
SaveCommandState(o, k) == disk' = [disk EXCEPT !.owner = o, !.keyOf = k]

Init ==
    /\ stored = [d \in Device |-> <<>>] /\ owner = [d \in Device |-> None]
    /\ keyOf = [p \in Peer |-> None] /\ baseId \in {None, OwnId}
    /\ disk = [stored |-> stored, owner |-> owner, keyOf |-> keyOf]
    /\ announcedBases = {} /\ announced = {} /\ replaying = FALSE /\ ready = FALSE
    /\ connected = TRUE
    /\ disc = [d \in Device |-> NoDoc] /\ baseDoc = {} /\ value = [d \in Device |-> Empty]
    /\ heard = [n \in Number |-> 0] /\ latest = [d \in Device |-> Empty]
    /\ crossed = {} /\ missed = {} /\ mixed = {} /\ exposed = {}
    /\ pc = [t \in Thread |-> IF t = Mqtt THEN "connect" ELSE "idle"]
    /\ job = [t \in Thread |-> NoJob] /\ todo = [t \in Thread |-> NoTodo]
    /\ group = [t \in Thread |-> None]
    /\ events = 0 /\ starts = 1 /\ drops = 0

Goto(t, s) == pc' = [pc EXCEPT ![t] = s]
Idle(t)    == pc[t] \in {"idle", "connect"}

\* base_name: the base_id serves the only base that was ever seen, any other has the
\* key of its address.
NameAmong(keys, p) ==
    IF {q \in Peer : keys[q] # None} \subseteq {p} /\ baseId # None THEN baseId ELSE p
BaseName(p) == NameAmong(keyOf, p)

-----------------------------------------------------------------------------
(* MqttBridge *)

\* discovery(): once per run of the gateway, unless removed since.
Announce(d, b) ==
    /\ announced' = announced \cup {d}
    /\ disc' = IF connected /\ d \notin announced
                 THEN [disc EXCEPT ![d] = [version |-> starts, via |-> b]] ELSE disc

\* Mutants of RemoveDevice: the set of announced documents is left alone; the
\* retained values are.
RemoveDeviceKeepAnnounced(d) ==
    /\ UNCHANGED <<announced, heard>>
    /\ disc' = IF connected THEN [disc EXCEPT ![d] = NoDoc] ELSE disc
    /\ value' = IF connected THEN [value EXCEPT ![d] = Empty] ELSE value
RemoveDeviceKeepValues(d) ==
    /\ announced' = announced \ {d}
    /\ disc' = IF connected THEN [disc EXCEPT ![d] = NoDoc] ELSE disc
    /\ UNCHANGED <<value, heard>>
\* remove_device(): the topic "pressure" is not among STATE_TOPICS.
RemoveDevice(d) ==
    /\ announced' = announced \ {d}
    /\ IF connected
         THEN /\ disc' = [disc EXCEPT ![d] = NoDoc]
              /\ value' = [value EXCEPT ![d] =
                             [t \in Topic |-> IF t = "pressure" THEN @[t] ELSE 0]]
         ELSE UNCHANGED <<disc, value>>
    /\ UNCHANGED heard

\* What the topics of e hold once e is published.
Shown(e) ==
    [value EXCEPT ![e.dev] = [t \in Topic |-> IF t \in Carries[e.kind] THEN e.num ELSE @[t]]]

\* Mutants of PublishValue: momentary events are replayed too; a value is sent with
\* the discovery document only.
PublishValueAlways(e) ==
    IF e.kind = "button"
      THEN heard' = [heard EXCEPT ![e.num] = @ + 1] /\ UNCHANGED value
      ELSE value' = Shown(e) /\ UNCHANGED heard
PublishValueOnce(e) ==
    CASE e.kind = "button" /\ ~replaying
             -> heard' = [heard EXCEPT ![e.num] = @ + 1] /\ UNCHANGED value
      [] e.kind # "button" /\ e.dev \notin announced
             -> value' = Shown(e) /\ UNCHANGED heard
      [] OTHER -> UNCHANGED <<value, heard>>
\* publish(): a replay leaves MOMENTARY_TOPICS out, whoever publishes meanwhile.
PublishValue(e) ==
    CASE e.kind # "button" /\ connected
             -> value' = Shown(e) /\ UNCHANGED heard
      [] e.kind = "button" /\ connected /\ ~replaying
             -> heard' = [heard EXCEPT ![e.num] = @ + 1] /\ UNCHANGED value
      [] OTHER -> UNCHANGED <<value, heard>>

\* The document of e or its removal does not get through, and is not tried again; or
\* it takes the one of a device that is known away.
Unheard(e) == IF e.kind = "deleted" THEN ~connected \/ e.dev \in Known
                                    ELSE ~connected /\ e.dev \notin announced

\* publish_event(), and what base its documents name.
PublishEvent(e, b) ==
    /\ IF e.kind = "deleted" THEN RemoveDevice(e.dev)
                             ELSE Announce(e.dev, b) /\ PublishValue(e)
    /\ missed' = IF Unheard(e) THEN missed \cup {e.dev} ELSE missed
    /\ UNCHANGED <<baseDoc, latest, crossed, mixed, exposed>>

-----------------------------------------------------------------------------
(* Replay: announce_known, for one base or base by base *)

\* What the state holds of the devices last seen by the bases P, each with the key of
\* its base.
Stored(P, names) ==
    [d \in Device |->
       IF owner[d] \in P
         THEN [i \in DOMAIN stored[d] |->
                 Event(None, names[owner[d]], d, stored[d][i].kind, stored[d][i].num)]
         ELSE <<>>]

Left(t) == {d \in Device : todo[t][d] # <<>>}
InGroup(t) == {d \in Left(t) : Head(todo[t][d]).base = group[t]}

\* What threads have at hand: a device of which something is still to be published,
\* the keys they name, and the events of a replay that has begun.
InHand(t, d) == (pc[t] \in {"save", "publish"} /\ job[t].dev = d) \/ d \in Left(t)
Going(t, d)  == pc[t] \in {"save", "publish"} /\ job[t].dev = d /\ job[t].kind = "deleted"
Naming(t)    == {job[t].base, group[t]} \cup {Head(todo[t][d]).base : d \in Left(t)}
Begun(t)     == UNION {{todo[t][d][i].num : i \in DOMAIN todo[t][d]} : d \in InGroup(t)}

\* Something of d is received while another thread has d at hand, or before Home
\* Assistant was shown all that was received of it; a removal alone settles it.
Crossing(t, e) ==
    \/ \E u \in Thread \ {t} : InHand(u, e.dev)
    \/ e.kind # "deleted" /\ \E x \in Topic \ Carries[e.kind] : value[e.dev][x] < latest[e.dev][x]
Meet(t, e) ==
    LET settled == IF e.kind = "deleted" THEN {e.dev} ELSE {}
    IN  IF Crossing(t, e)
          THEN crossed' = crossed \cup {e.dev} /\ UNCHANGED missed
          ELSE crossed' = crossed \ settled /\ missed' = missed \ settled

\* _replay_all_known_devices: what is known, under the lock.
Snapshot ==
    /\ pc[Mqtt] = "connect"
    /\ todo' = [todo EXCEPT ![Mqtt] = Stored(Peer, [p \in Peer |-> BaseName(p)])]
    /\ Goto(Mqtt, "group")
    /\ UNCHANGED <<mem, baseId, bridge, disk, connected, broker, past, job, group, counts>>

\* The next base of the replay; without self.mqtt this raises, and ends it.
GroupStart(t) ==
    /\ pc[t] = "group"
    /\ \/ /\ Left(t) = {} /\ Goto(t, IF t = Mqtt THEN "idle" ELSE "known")
          /\ UNCHANGED <<announcedBases, replaying, group, todo>>
       \/ \E b \in {Head(todo[t][d]).base : d \in Left(t)} :
            /\ announcedBases' = announcedBases \cup {b}
            /\ IF ready
                 THEN /\ Goto(t, "replay") /\ replaying' = TRUE /\ UNCHANGED todo
                      /\ group' = [group EXCEPT ![t] = b]
                 ELSE /\ Goto(t, "idle") /\ todo' = [todo EXCEPT ![t] = NoTodo]
                      /\ UNCHANGED <<replaying, group>>
    /\ missed' = IF ready THEN missed ELSE missed \cup Left(t)
    /\ UNCHANGED <<mem, baseId, announced, ready, disk, connected, broker, latest, crossed, mixed,
                   exposed, job, counts>>

\* The events of a device, in the order of their dictionary.
ReplayOne(t) ==
    /\ pc[t] = "replay"
    /\ \E d \in InGroup(t) :
         /\ PublishEvent(Head(todo[t][d]), group[t])
         /\ todo' = [todo EXCEPT ![t][d] = Tail(@)]
    /\ UNCHANGED <<mem, baseId, announcedBases, replaying, ready, disk, connected, pc, job, group,
                   counts>>

Replaying == {t \in Thread : pc[t] = "replay"}
\* Mutant of ReplayEnd: the flag stays up.
ReplayEndNoReset(t) ==
    /\ pc[t] = "replay" /\ InGroup(t) = {}
    /\ Goto(t, "group") /\ group' = [group EXCEPT ![t] = None]
    /\ exposed' = exposed \cup UNION {Begun(u) : u \in Replaying \ {t}}
    /\ UNCHANGED <<mem, baseId, bridge, disk, connected, broker, latest, crossed, missed, mixed,
                   job, todo, counts>>
ReplayEnd(t) ==
    /\ pc[t] = "replay" /\ InGroup(t) = {}
    /\ replaying' = FALSE
    /\ Goto(t, "group") /\ group' = [group EXCEPT ![t] = None]
    /\ exposed' = exposed \cup UNION {Begun(u) : u \in Replaying \ {t}}
    /\ UNCHANGED <<mem, baseId, announcedBases, announced, ready, disk, connected, broker, latest,
                   crossed, missed, mixed, job, todo, counts>>

-----------------------------------------------------------------------------
(* record(), in a connection thread *)

\* An event of a device, or another request of the base ("none").
Post(t, p, d, k) ==
    /\ ready /\ pc[t] = "idle"
    /\ k \in Kind => events < MaxEvents
    /\ k = "deleted" => d \in Known
    /\ events' = IF k \in Kind THEN events + 1 ELSE events
    /\ job' = [job EXCEPT ![t] = Event(p, BaseName(p), d, k, IF k \in Kind THEN events' ELSE 0)]
    /\ Goto(t, "base")
    /\ UNCHANGED <<mem, baseId, bridge, disk, connected, broker, past, todo, group, starts,
                   drops>>

\* The keys of stale that another thread names, or all without a broker to tell.
Mixed(t, stale) == IF connected THEN stale \cap UNION {Naming(u) : u \in Thread \ {t}} ELSE stale

\* Mutant of Retire: the documents that name the key are not announced again.
RetireQuietly(t, stale) ==
    /\ baseDoc' = IF connected THEN baseDoc \ stale ELSE baseDoc
    /\ announced' = announced \ stale
    /\ mixed' = mixed \cup Mixed(t, stale)
    /\ Goto(t, "known") /\ UNCHANGED todo
\* _retire_base_key: remove_base, and all devices are announced again.
Retire(t, stale) ==
    /\ baseDoc' = IF connected THEN baseDoc \ stale ELSE baseDoc
    /\ announced' = {}
    /\ mixed' = mixed \cup Mixed(t, stale)
    /\ todo' = [todo EXCEPT ![t] = Stored(Peer, [p \in Peer |-> NameAmong(keyOf', p)])]
    /\ Goto(t, "group")

\* _retire_stale_base_keys: a base whose key has changed takes the old one away,
\* unless another base has it.
Rename(t) ==
    /\ pc[t] = "base"
    /\ LET p == job[t].peer
           b == job[t].base
           stale == {keyOf[p]} \ ({None, b} \cup {keyOf[q] : q \in Peer \ {p}})
       IN  /\ keyOf' = [keyOf EXCEPT ![p] = b]
           /\ IF keyOf' = keyOf THEN UNCHANGED disk ELSE SaveCommandState(owner, keyOf')
           /\ IF keyOf' # keyOf /\ stale # {}
                THEN Retire(t, stale)
                ELSE Goto(t, "known") /\ UNCHANGED <<announced, baseDoc, todo, mixed>>
    /\ UNCHANGED <<stored, owner, baseId, announcedBases, replaying, ready, connected, disc, value,
                   heard, latest, crossed, missed, exposed, job, group, counts>>

\* announce_base; the first request of this base in this run of the gateway replays
\* its devices.
Base(t) ==
    /\ pc[t] = "known"
    /\ LET b == job[t].base
       IN  /\ announced' = announced \cup {b}
           /\ baseDoc' = IF connected /\ b \notin announced THEN baseDoc \cup {b} ELSE baseDoc
           /\ IF b \in announcedBases
                THEN /\ Goto(t, IF job[t].kind = "none" THEN "idle" ELSE "update")
                     /\ job' = IF job[t].kind = "none" THEN [job EXCEPT ![t] = NoJob] ELSE job
                     /\ UNCHANGED <<announcedBases, todo>>
                ELSE /\ announcedBases' = announcedBases \cup {b}
                     /\ todo' = [todo EXCEPT ![t] = Stored({job[t].peer}, [p \in Peer |-> b])]
                     /\ Goto(t, "group") /\ UNCHANGED job
    /\ UNCHANGED <<mem, baseId, replaying, ready, disk, connected, disc, value, heard, past, group,
                   counts>>

\* The section under Gateway.lock; state is saved in it.
Update(t) ==
    LET e == job[t]
        gone == e.kind = "deleted"
    IN  /\ pc[t] = "update"
        /\ stored' = [stored EXCEPT ![e.dev] = IF gone THEN <<>> ELSE Put(@, e.kind, e.num)]
        /\ owner' = [owner EXCEPT ![e.dev] = IF gone THEN None ELSE e.peer]
        /\ latest' = [latest EXCEPT ![e.dev] =
                         IF gone THEN Empty ELSE
                           [x \in Topic |-> IF x \in Carries[e.kind] THEN e.num ELSE @[x]]]
        /\ Meet(t, e)
        /\ SaveState(stored')
        /\ Goto(t, IF owner' = owner THEN "publish" ELSE "save")
        /\ UNCHANGED <<keyOf, baseId, bridge, connected, broker, mixed, exposed, job, todo, group,
                       counts>>

\* _save_command_state, which holds device_base.
Save(t) ==
    /\ pc[t] = "save"
    /\ SaveCommandState(owner, keyOf)
    /\ Goto(t, "publish")
    /\ UNCHANGED <<mem, baseId, bridge, connected, broker, past, job, todo, group, counts>>

Publish(t) ==
    /\ pc[t] = "publish"
    /\ PublishEvent(job[t], job[t].base)
    /\ job' = [job EXCEPT ![t] = NoJob]
    /\ Goto(t, "idle")
    /\ UNCHANGED <<mem, baseId, announcedBases, replaying, ready, disk, connected, todo, group,
                   counts>>

-----------------------------------------------------------------------------
(* on_message, in paho's thread; the broker; the process *)

\* _forget_device, from the button in Home Assistant; then Save and Publish.
Forget(d) ==
    /\ ready /\ pc[Mqtt] = "idle" /\ connected /\ disc[d] # NoDoc
    /\ stored' = [stored EXCEPT ![d] = <<>>]
    /\ owner' = [owner EXCEPT ![d] = None]
    /\ latest' = [latest EXCEPT ![d] = Empty]
    /\ Meet(Mqtt, Event(None, None, d, "deleted", 0))
    /\ SaveState(stored')
    /\ job' = [job EXCEPT ![Mqtt] = Event(None, None, d, "deleted", 0)]
    /\ Goto(Mqtt, IF owner' = owner THEN "publish" ELSE "save")
    /\ UNCHANGED <<keyOf, baseId, bridge, connected, broker, mixed, exposed, todo, group, counts>>

\* A setpoint chosen in Home Assistant: once it is queued the climate shows it.
Choose(d) ==
    /\ ready /\ pc[Mqtt] = "idle" /\ connected /\ value[d].setpoint # 0
    /\ events < MaxEvents /\ events' = events + 1
    /\ value' = [value EXCEPT ![d].setpoint = events']
    /\ UNCHANGED <<mem, baseId, bridge, disk, connected, disc, baseDoc, heard, past, thread,
                   starts, drops>>

\* MqttBridge(...) has returned: self.mqtt is there.
Assign ==
    /\ ~ready /\ ready' = TRUE
    /\ UNCHANGED <<mem, baseId, announcedBases, announced, replaying, disk, connected, broker, past,
                   thread, counts>>

\* The connection to the broker breaks, and paho makes a new one.
Drop ==
    /\ connected /\ starts + drops <= MaxFaults
    /\ connected' = FALSE /\ drops' = drops + 1
    /\ UNCHANGED <<mem, baseId, bridge, disk, broker, past, thread, events, starts>>
Reconnect ==
    /\ ~connected /\ Idle(Mqtt)
    /\ connected' = TRUE /\ Goto(Mqtt, "connect")
    /\ UNCHANGED <<mem, baseId, bridge, disk, broker, past, job, todo, group, counts>>

\* Stop or crash, and start again, perhaps as a newer version.
Restart ==
    /\ starts + drops <= MaxFaults /\ starts' = starts + 1
    /\ stored' = disk.stored /\ owner' = disk.owner /\ keyOf' = disk.keyOf
    /\ IF Reconfigure THEN baseId' \in {None, OwnId} ELSE UNCHANGED baseId
    /\ announcedBases' = {} /\ announced' = {} /\ replaying' = FALSE /\ ready' = FALSE
    /\ connected' = TRUE
    /\ pc' = [t \in Thread |-> IF t = Mqtt THEN "connect" ELSE "idle"]
    /\ job' = [t \in Thread |-> NoJob] /\ todo' = [t \in Thread |-> NoTodo]
    /\ group' = [t \in Thread |-> None]
    /\ missed' = ((missed \cup {d \in Device : \E t \in Thread : Going(t, d)}) \ Known)
                    \cup {d \in Known : disk.owner[d] = None}
    /\ UNCHANGED <<disk, broker, latest, crossed, mixed, exposed, events, drops>>

Next ==
    \/ \E t \in Conn, p \in Peer, d \in Device, k \in Kind \cup {"deleted"} : Post(t, p, d, k)
    \/ \E t \in Conn, p \in Peer : Post(t, p, None, "none")
    \/ \E t \in Conn : Rename(t) \/ Base(t) \/ Update(t)
    \/ \E t \in Thread : GroupStart(t) \/ ReplayOne(t) \/ ReplayEnd(t) \/ Save(t) \/ Publish(t)
    \/ \E d \in Device : Forget(d) \/ ("setpoint" \in Topic /\ Choose(d))
    \/ Snapshot \/ Assign \/ Drop \/ Reconnect \/ Restart

Spec == Init /\ [][Next]_vars

-----------------------------------------------------------------------------
Entries == [kind : Kind, num : Number]
Events == [peer : Peer \cup {None}, base : Key \cup {None}, dev : Device \cup {None},
           kind : Kind \cup {"deleted", "none"}, num : 0..MaxEvents]

\* One entry per sink.
Dicts(s) ==
    /\ s \in [Device -> Seq(Entries)]
    /\ \A d \in Device : \A i, j \in DOMAIN s[d] :
         Sink[s[d][i].kind] = Sink[s[d][j].kind] => i = j

TypeOK ==
    /\ Dicts(stored) /\ owner \in [Device -> Peer \cup {None}]
    /\ keyOf \in [Peer -> Key \cup {None}] /\ baseId \in {None, OwnId}
    /\ announcedBases \subseteq Key /\ announced \subseteq Device \cup Key
    /\ {replaying, ready, connected} \subseteq BOOLEAN
    /\ DOMAIN disk = {"stored", "owner", "keyOf"} /\ Dicts(disk.stored)
    /\ disk.owner \in [Device -> Peer \cup {None}] /\ disk.keyOf \in [Peer -> Key \cup {None}]
    /\ disc \in [Device -> [version : 0..MaxFaults + 1, via : Key \cup {None}]]
    /\ baseDoc \subseteq Key
    /\ {value, latest} \subseteq [Device -> [Topic -> 0..MaxEvents]]
    /\ heard \in [Number -> Nat]
    /\ {crossed, missed} \subseteq SUBSET Device /\ mixed \subseteq Key
    /\ exposed \subseteq Number
    /\ pc \in [Thread -> {"connect", "idle", "base", "known", "group", "replay", "update", "save",
                          "publish"}]
    /\ job \in [Thread -> Events] /\ todo \in [Thread -> [Device -> Seq(Events)]]
    /\ group \in [Thread -> Key \cup {None}]
    /\ events \in 0..MaxEvents /\ starts \in 1..MaxFaults + 1 /\ drops \in 0..MaxFaults

\* Nothing is under way, and the last connection to the broker has been replayed to.
Quiet == ready /\ connected /\ \A t \in Thread : pc[t] = "idle"

\* Of a device that was deleted or forgotten nothing stays on the broker ("Smazat
\* vsechny stopy po odparovanem uzlu"), unless a thread had it at hand then or the
\* removal did not get through; but for the topic "pressure".
NoGhost ==
    Quiet => \A d \in Device \ (Known \cup crossed \cup missed) :
               disc[d] = NoDoc /\ \A t \in Topic \ {"pressure"} : value[d][t] = 0

\* Every known device has the discovery document of the gateway that runs ("Obnovit
\* discovery vsech znamych zarizeni hned po pripojeni k MQTT"), unless it was lost on
\* the way.
KnownIsAnnounced == Quiet => \A d \in Known \ missed : disc[d].version = starts

\* A base that goes by another key takes the entities of the old one away, and no device
\* is left attached to a key that no base has or is about to take ("Uzly nesou
\* via_device se starym klicem, takze se musi ohlasit znovu"), unless a thread still
\* named the key as it was taken away.
AttachedToBase ==
    Quiet => LET inUse == {keyOf[p] : p \in Peer} \cup mixed
             IN  /\ baseDoc \subseteq inUse
                 /\ \A d \in Known \ missed : disc[d].via \in inUse \cup {BaseName(p) : p \in Peer}

\* Each topic that is one sink's own shows the last event received that is about it, or
\* a setpoint chosen since; an event that is not about it (inst;0;0, a button) leaves it
\* as it is, unless it crossed another event of the device.
ValueIsCurrent ==
    Quiet => \A d \in Known \ (crossed \cup missed), t \in OwnTopic : value[d][t] >= latest[d][t]

\* Home Assistant is shown the last of what is known of a device ("Obnovit discovery i
\* posledni znamy stav zarizeni"), and nothing of one that is not known ("Smazat vsechny
\* stopy po odparovanem uzlu").
LastIsShown   == Quiet => \A d \in Known, t \in Topic : value[d][t] >= latest[d][t]
NothingIsLeft == Quiet => \A d \in Device \ Known, t \in Topic : value[d][t] = 0
ShownIsLast   == LastIsShown /\ NothingIsLeft
\* The part of it that only the order of a replay breaks.
OrderIsKept ==
    Quiet => \A d \in Known \ (crossed \cup missed), t \in Topic : value[d][t] >= latest[d][t]

\* A press is not heard again from the stored history ("jinak by se v HA spustil
\* pohyb a stisky tlacitek ze stare historie"), unless a replay ended while another that
\* had it before it was running.
HeardOnce == \A n \in Number \ exposed : heard[n] <= 1

\* A press that is posted while the broker is there and no replay runs is heard.
PressIsHeard ==
    [][\A t \in Conn : pc[t] = "publish" /\ job[t].kind = "button" /\ connected
                       /\ pc'[t] = "idle" /\ starts' = starts /\ Replaying = {}
            => heard'[job[t].num] = heard[job[t].num] + 1]_vars
=============================================================================
