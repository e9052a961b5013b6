----------------------- MODULE DeviceRegistry_proofs ------------------------
(***************************************************************************)
(* The safety properties of the registry, for any number of devices, bases, *)
(* connection threads, broken connections and restarts, and whatever runs   *)
(* at the same time: nothing of a removed device stays on the broker, a     *)
(* known one is announced and shown by its last event, but for those the    *)
(* histories name; and a press is heard once.                               *)
(***************************************************************************)
EXTENDS DeviceRegistry, TLAPS, FiniteSetTheorems

\* A sequence, whatever it is of.
IsSeq(s) == s \in Seq({s[i] : i \in DOMAIN s})

Steps == {"connect", "idle", "base", "known", "group", "replay", "update", "save", "publish"}

-----------------------------------------------------------------------------
(* Sequences *)

LEMMA AnySeq ==
    ASSUME NEW S, NEW s \in Seq(S)
    PROVE  IsSeq(s)
  BY DEF IsSeq

LEMMA Rest ==
    ASSUME NEW s, IsSeq(s), s # <<>>
    PROVE  /\ IsSeq(Tail(s)) /\ 1 \in DOMAIN s /\ Head(s) = s[1]
           /\ \A i \in DOMAIN Tail(s) : i + 1 \in DOMAIN s /\ Tail(s)[i] = s[i + 1]
<1>. DEFINE S == {s[i] : i \in DOMAIN s}
<1>1. s \in Seq(S)
  BY DEF IsSeq
<1>. HIDE DEF S
<1>2. Tail(s) \in Seq(S) /\ Len(s) \in Nat \ {0} /\ DOMAIN s = 1..Len(s) /\ Head(s) = s[1]
      /\ Len(Tail(s)) = Len(s) - 1
  BY <1>1
<1>3. DOMAIN Tail(s) = 1..Len(s) - 1 /\ \A i \in 1..Len(s) - 1 : Tail(s)[i] = s[i + 1]
  BY <1>1, <1>2
<1>4. IsSeq(Tail(s))
  BY <1>2, AnySeq
<1>5. 1 \in DOMAIN s /\ \A i \in 1..Len(s) - 1 : i + 1 \in DOMAIN s
  BY <1>2
<1>. QED  BY <1>2, <1>3, <1>4, <1>5

LEMMA Kinds ==
    /\ Kind \subseteq DOMAIN Sink /\ "none" \notin Kind /\ "deleted" \notin Kind
    /\ MaxEvents \in Nat /\ None \notin Peer /\ None \notin Key /\ None \notin Device
    /\ Device \cap Key = {} /\ Mqtt \notin Conn /\ Mqtt \in Thread /\ Conn \subseteq Thread
  BY DeviceRegistryAssumption DEF Sink, Key, Thread

-----------------------------------------------------------------------------
(* The order of a save *)

\* Each entry of a device has a place of its own in the save, and each place its entry.
LEMMA SortedPlaces ==
    ASSUME NEW s, IsSeq(s), \A i \in DOMAIN s : s[i].kind \in DOMAIN Sink
    PROVE  LET Letter(i) == Alphabet[Sink[s[i].kind]]
               Place(i)  == Cardinality({j \in DOMAIN s : Letter(j) < Letter(i)
                                                          \/ (Letter(j) = Letter(i) /\ j <= i)})
           IN  \A i \in DOMAIN s : /\ \E j \in DOMAIN s : Place(j) = i
                                   /\ Place(i) \in DOMAIN s
                                   /\ \A j \in DOMAIN s : Place(i) = Place(j) => i = j
<1>. DEFINE Letter(i) == Alphabet[Sink[s[i].kind]]
            Before(i) == {j \in DOMAIN s : Letter(j) < Letter(i)
                                           \/ (Letter(j) = Letter(i) /\ j <= i)}
            f == [i \in DOMAIN s |-> Cardinality(Before(i))]
<1>1. PICK m \in Nat : DOMAIN s = 1..m
  BY DEF IsSeq
<1>2. IsFiniteSet(DOMAIN s) /\ Cardinality(DOMAIN s) = m
  BY <1>1, FS_Interval
<1>3. \A i \in DOMAIN s : Letter(i) \in Nat /\ i \in Nat
  BY <1>1 DEF Sink, Alphabet
<1>4. \A i \in DOMAIN s : /\ Before(i) \in SUBSET (DOMAIN s) /\ i \in Before(i)
                          /\ IsFiniteSet(Before(i))
  <2>1. \A i \in DOMAIN s : Before(i) \in SUBSET (DOMAIN s)
    OBVIOUS
  <2>2. \A i \in DOMAIN s : i \in Before(i)
    BY <1>3
  <2>. QED  BY <2>1, <2>2, <1>2, FS_Subset
<1>5. \A i \in DOMAIN s : Cardinality(Before(i)) \in 1..m
  <2>. SUFFICES ASSUME NEW i \in DOMAIN s PROVE Cardinality(Before(i)) \in 1..m
    OBVIOUS
  <2>1. Cardinality(Before(i)) <= m /\ Cardinality(Before(i)) \in Nat
    BY <1>2, <1>4, FS_Subset, FS_CardinalityType
  <2>2. Cardinality(Before(i)) # 0
    BY <1>4, FS_EmptySet
  <2>. QED  BY <2>1, <2>2
<1>6. \A i, k \in DOMAIN s : Cardinality(Before(i)) = Cardinality(Before(k)) => i = k
  <2>. SUFFICES ASSUME NEW i \in DOMAIN s, NEW k \in DOMAIN s, i # k,
                       Letter(i) < Letter(k) \/ (Letter(i) = Letter(k) /\ i <= k)
                PROVE  Cardinality(Before(i)) # Cardinality(Before(k))
    BY <1>3
  <2>1. Before(i) \in SUBSET Before(k)
    <3>. SUFFICES ASSUME NEW j \in DOMAIN s,
                         Letter(j) < Letter(i) \/ (Letter(j) = Letter(i) /\ j <= i)
                  PROVE  Letter(j) < Letter(k) \/ (Letter(j) = Letter(k) /\ j <= k)
      OBVIOUS
    <3>. HIDE DEF Letter
    <3>. QED  BY <1>3
  <2>2. k \notin Before(i)
    BY <1>3
  <2>3. k \in Before(k)
    BY <1>4
  <2>. HIDE DEF Before
  <2>. QED  BY <1>4, <2>1, <2>2, <2>3, FS_Subset
<1>. HIDE DEF Before
<1>7. f \in Injection(DOMAIN s, 1..m)
  BY <1>5, <1>6 DEF Injection, IsInjective
<1>8. \A n \in 1..m : \E i \in DOMAIN s : Cardinality(Before(i)) = n
  <2>1. f \in Surjection(DOMAIN s, 1..m)
    BY <1>1, <1>2, <1>7, FS_Injection
  <2>. QED  BY <2>1 DEF Surjection
<1>. QED  BY <1>1, <1>5, <1>6, <1>8 DEF Before

-----------------------------------------------------------------------------
(* Types, whatever runs at the same time, is lost or is cut off *)

\* An event of a replay: of a device, with the key of its base.
Replayed == [peer : {None}, base : Key, dev : Device, kind : Kind, num : Number]

\* What a thread has at hand at a step s: a request of a base, an event of a device, or a
\* device to be removed.
HasJob(t, s, e) ==
    /\ e.kind # "none" => e.dev \in Device
    /\ e.kind \in Kind => t \in Conn /\ e.num \in Number
    /\ t \in Conn /\ s # "idle" => e.peer \in Peer /\ e.base \in Key
    /\ s \in {"update", "save", "publish"} => e.kind # "none"

KnownTyped ==
    /\ Dicts(stored) /\ owner \in [Device -> Peer \cup {None}]
    /\ keyOf \in [Peer -> Key \cup {None}] /\ baseId \in {None, OwnId}
BridgeTyped ==
    /\ announcedBases \subseteq Key /\ announced \subseteq Device \cup Key
    /\ {replaying, ready, connected} \subseteq BOOLEAN
DiskTyped ==
    /\ DOMAIN disk = {"stored", "owner", "keyOf"} /\ Dicts(disk.stored)
    /\ disk.owner \in [Device -> Peer \cup {None}] /\ disk.keyOf \in [Peer -> Key \cup {None}]
DocsTyped ==
    /\ disc \in [Device -> [version : 0..MaxFaults + 1, via : Key \cup {None}]] /\ baseDoc \subseteq Key
ValuesTyped ==
    /\ {value, latest} \subseteq [Device -> [Topic -> 0..MaxEvents]]
    /\ heard \in [Number -> Nat]
ThreadTyped ==
    /\ pc \in [Thread -> Steps] /\ job \in [Thread -> Events]
    /\ todo \in [Thread -> [Device -> Seq(Replayed)]] /\ group \in [Thread -> Key \cup {None}]
    /\ \A t \in Thread : HasJob(t, pc[t], job[t])
PastTyped ==
    /\ crossed \subseteq Device /\ missed \subseteq Device /\ mixed \subseteq Key
    /\ exposed \subseteq Number
CountTyped ==
    /\ events \in 0..MaxEvents /\ starts \in 1..MaxFaults + 1 /\ drops \in 0..MaxFaults

Typed == /\ KnownTyped /\ BridgeTyped /\ DiskTyped /\ DocsTyped /\ ValuesTyped /\ ThreadTyped
         /\ CountTyped

LEMMA TypedIsTyped == Typed /\ PastTyped => TypeOK
<1>1. Seq(Replayed) \subseteq Seq(Events)
  <2>1. Replayed \subseteq Events
    BY Kinds DEF Replayed, Events, Number
  <2>. QED  BY <2>1
<1>2. Typed => todo \in [Thread -> [Device -> Seq(Events)]]
  BY <1>1 DEF Typed, ThreadTyped
<1>. QED  BY <1>2 DEF Typed, KnownTyped, BridgeTyped, DiskTyped, DocsTyped, ValuesTyped, ThreadTyped,
          PastTyped, CountTyped, TypeOK, Steps

\* A dictionary has an entry per sink, and keeps that as an event is put in and as it is
\* saved in another order.
Dict(s) == /\ s \in Seq(Entries)
           /\ \A i, j \in DOMAIN s : Sink[s[i].kind] = Sink[s[j].kind] => i = j

LEMMA DictsOf == ASSUME NEW f PROVE Dicts(f) <=> f \in [Device -> Seq(Entries)] /\ \A d \in Device : Dict(f[d])
  BY DEF Dicts, Dict

LEMMA DictForm ==
    ASSUME NEW s, Dict(s)
    PROVE  /\ s \in Seq(Entries) /\ DOMAIN s = 1..Len(s) /\ Len(s) \in Nat
           /\ \A i \in DOMAIN s : s[i] \in Entries
<1>1. s \in Seq(Entries)
  BY DEF Dict
<1>. QED  BY <1>1

LEMMA PutDict ==
    ASSUME NEW s, Dict(s), NEW k \in Kind, NEW n \in Number
    PROVE  Dict(Put(s, k, n))
<1>. DEFINE e == [kind |-> k, num |-> n]
<1>1. e \in Entries /\ s \in Seq(Entries) /\ DOMAIN s = 1..Len(s) /\ Len(s) \in Nat
      /\ \A i \in DOMAIN s : s[i] \in Entries
  BY DictForm DEF Entries
<1>2. CASE \E i \in DOMAIN s : Sink[s[i].kind] = Sink[k]
  <2>. DEFINE r == [i \in DOMAIN s |-> IF Sink[s[i].kind] = Sink[k] THEN e ELSE s[i]]
  <2>1. Put(s, k, n) = r
    BY <1>2 DEF Put
  <2>2. \A i \in DOMAIN s : r[i] \in Entries /\ Sink[r[i].kind] = Sink[s[i].kind]
    BY <1>1
  <2>3. r \in Seq(Entries) /\ DOMAIN r = DOMAIN s
    <3>1. r \in [1..Len(s) -> Entries]
      BY <1>1, <2>2
    <3>. QED  BY <1>1, <3>1
  <2>. HIDE DEF r
  <2>. QED  BY <2>1, <2>2, <2>3 DEF Dict
<1>3. CASE ~\E i \in DOMAIN s : Sink[s[i].kind] = Sink[k]
  <2>1. Put(s, k, n) = Append(s, e)
    BY <1>3 DEF Put
  <2>2. /\ Append(s, e) \in Seq(Entries) /\ DOMAIN Append(s, e) = 1..Len(s) + 1
        /\ Append(s, e)[Len(s) + 1] = e /\ \A i \in 1..Len(s) : Append(s, e)[i] = s[i]
    BY <1>1
  <2>. DEFINE r == Append(s, e)
  <2>. HIDE DEF r
  <2>3. /\ r \in Seq(Entries) /\ DOMAIN r = 1..Len(s) + 1 /\ Sink[r[Len(s) + 1].kind] = Sink[k]
        /\ \A i \in 1..Len(s) : r[i] = s[i]
    BY <2>2 DEF r
  <2>4. \A i, j \in 1..Len(s) + 1 : Sink[r[i].kind] = Sink[r[j].kind] => i = j
    BY <1>1, <1>3, <2>3 DEF Dict
  <2>. QED  BY <2>1, <2>3, <2>4 DEF Dict, r
<1>. QED  BY <1>2, <1>3

LEMMA SortedDict ==
    ASSUME NEW s, Dict(s)
    PROVE  Dict(Sorted(s))
<1>1. /\ s \in Seq(Entries) /\ DOMAIN s = 1..Len(s) /\ Len(s) \in Nat
      /\ \A i \in DOMAIN s : s[i] \in Entries
  BY DictForm
<1>0. IsSeq(s) /\ \A i \in DOMAIN s : s[i].kind \in DOMAIN Sink
  BY <1>1, AnySeq, Kinds DEF Entries
<1>. DEFINE Letter(i) == Alphabet[Sink[s[i].kind]]
            Place(i)  == Cardinality({j \in DOMAIN s : Letter(j) < Letter(i)
                                                   \/ (Letter(j) = Letter(i) /\ j <= i)})
            at(n)     == CHOOSE i \in DOMAIN s : Place(i) = n
<1>2. \A n \in DOMAIN s : \E i \in DOMAIN s : Place(i) = n
  BY <1>0, SortedPlaces
<1>3. Sorted(s) = [n \in DOMAIN s |-> s[at(n)]]
  BY DEF Sorted
<1>. HIDE DEF Place
<1>4. \A n \in DOMAIN s : at(n) \in DOMAIN s /\ Place(at(n)) = n
  BY <1>2
<1>. HIDE DEF at
<1>5. Sorted(s) \in Seq(Entries) /\ DOMAIN Sorted(s) = DOMAIN s
  <2>1. Sorted(s) \in [1..Len(s) -> Entries]
    BY <1>1, <1>3, <1>4
  <2>. QED  BY <1>1, <1>3, <2>1
<1>6. \A n, m \in DOMAIN s : Sink[Sorted(s)[n].kind] = Sink[Sorted(s)[m].kind] => n = m
  <2>. SUFFICES ASSUME NEW n \in DOMAIN s, NEW m \in DOMAIN s,
                       Sink[Sorted(s)[n].kind] = Sink[Sorted(s)[m].kind]
                PROVE  n = m
    OBVIOUS
  <2>1. Sorted(s)[n] = s[at(n)] /\ Sorted(s)[m] = s[at(m)]
    BY <1>3
  <2>2. at(n) = at(m)
    BY <1>4, <2>1 DEF Dict
  <2>. QED  BY <1>4, <2>2
<1>. QED  BY <1>5, <1>6 DEF Dict

LEMMA NoJobTyped ==
    /\ NoJob \in Events /\ NoJob.kind = "none" /\ NoTodo \in [Device -> Seq(Replayed)]
    /\ \A t \in Thread : HasJob(t, "idle", NoJob) /\ (t = Mqtt => \A s \in Steps \ {"update", "save", "publish"} : HasJob(t, s, NoJob))
<1>1. NoJob \in Events /\ NoJob.kind = "none"
  BY Kinds DEF NoJob, Event, Events
<1>2. NoTodo \in [Device -> Seq(Replayed)]
  BY DEF NoTodo
<1>. QED  BY <1>1, <1>2, Kinds DEF HasJob

LEMMA InitTyped == Init => Typed
<1>. SUFFICES ASSUME Init PROVE Typed
  OBVIOUS
<1>1. /\ stored = [d \in Device |-> <<>>] /\ owner = [d \in Device |-> None]
      /\ keyOf = [p \in Peer |-> None] /\ baseId \in {None, OwnId}
      /\ disk = [stored |-> stored, owner |-> owner, keyOf |-> keyOf]
  BY DEF Init
<1>2. Dicts(stored)
  BY <1>1 DEF Dicts
<1>3. KnownTyped /\ DiskTyped
  BY <1>1, <1>2 DEF KnownTyped, DiskTyped
<1>4. BridgeTyped
  BY DEF Init, BridgeTyped
<1>5. MaxFaults \in Nat /\ MaxEvents \in Nat
  BY DeviceRegistryAssumption
<1>6. DocsTyped
  BY <1>5 DEF Init, DocsTyped, NoDoc
<1>7. ValuesTyped
  BY <1>5 DEF Init, ValuesTyped, Empty
<1>8. ThreadTyped
  <2>1. pc \in [Thread -> Steps] /\ \A t \in Thread : pc[t] = "idle" \/ (t = Mqtt /\ pc[t] = "connect")
    BY DEF Init, Steps
  <2>2. job \in [Thread -> Events] /\ todo \in [Thread -> [Device -> Seq(Replayed)]]
        /\ group \in [Thread -> Key \cup {None}] /\ \A t \in Thread : job[t] = NoJob
    BY NoJobTyped DEF Init
  <2>3. \A t \in Thread : HasJob(t, pc[t], job[t])
    BY <2>1, <2>2, NoJobTyped DEF Steps
  <2>. QED  BY <2>1, <2>2, <2>3 DEF ThreadTyped
<1>9. CountTyped
  BY <1>5 DEF Init, CountTyped
<1>. QED  BY <1>3, <1>4, <1>6, <1>7, <1>8, <1>9 DEF Typed

\* A thread goes to another step, perhaps with another event, replay and base at hand.
LEMMA ThreadGoes ==
    ASSUME ThreadTyped, NEW t \in Thread, NEW s \in Steps, NEW e \in Events, HasJob(t, s, e),
           NEW q \in [Device -> Seq(Replayed)], NEW g \in Key \cup {None},
           (pc' = pc /\ s = pc[t]) \/ pc' = [pc EXCEPT ![t] = s],
           (job' = job /\ e = job[t]) \/ job' = [job EXCEPT ![t] = e],
           (todo' = todo /\ q = todo[t]) \/ todo' = [todo EXCEPT ![t] = q],
           (group' = group /\ g = group[t]) \/ group' = [group EXCEPT ![t] = g]
    PROVE  ThreadTyped'
<1>1. pc' \in [Thread -> Steps] /\ pc'[t] = s /\ \A u \in Thread \ {t} : pc'[u] = pc[u]
  BY DEF ThreadTyped
<1>2. job' \in [Thread -> Events] /\ job'[t] = e /\ \A u \in Thread \ {t} : job'[u] = job[u]
  BY DEF ThreadTyped
<1>3. todo' \in [Thread -> [Device -> Seq(Replayed)]]
  BY DEF ThreadTyped
<1>4. group' \in [Thread -> Key \cup {None}]
  BY DEF ThreadTyped
<1>5. ASSUME NEW u \in Thread PROVE HasJob(u, pc'[u], job'[u])
  <2>1. CASE u = t
    BY <1>1, <1>2, <2>1
  <2>2. CASE u # t
    BY <1>1, <1>2, <2>2 DEF ThreadTyped
  <2>. QED  BY <2>1, <2>2
<1>6. \A u \in Thread : (HasJob(u, pc[u], job[u]))'
  BY <1>5 DEF HasJob
<1>. QED  BY <1>1, <1>2, <1>3, <1>4, <1>6 DEF ThreadTyped

\* What a thread has.
LEMMA ThreadHas ==
    ASSUME Typed, NEW t \in Thread
    PROVE  /\ ThreadTyped /\ pc[t] \in Steps /\ job[t] \in Events /\ HasJob(t, pc[t], job[t])
           /\ todo[t] \in [Device -> Seq(Replayed)] /\ group[t] \in Key \cup {None}
           /\ t \in DOMAIN job /\ t \in DOMAIN todo
  BY DEF Typed, ThreadTyped

LEMMA KeysOfNames ==
    ASSUME Typed, NEW keys, NEW p \in Peer
    PROVE  NameAmong(keys, p) \in Key /\ BaseName(p) \in Key
  BY DEF Typed, KnownTyped, NameAmong, BaseName, Key

\* What is put together for a replay.
LEMMA StoredTyped ==
    ASSUME Typed, NEW P \in SUBSET Peer, NEW names \in [Peer -> Key]
    PROVE  Stored(P, names) \in [Device -> Seq(Replayed)]
<1>. SUFFICES ASSUME NEW d \in Device, owner[d] \in P
              PROVE  [i \in DOMAIN stored[d] |->
                        Event(None, names[owner[d]], d, stored[d][i].kind, stored[d][i].num)]
                     \in Seq(Replayed)
  BY DEF Stored
<1>. DEFINE r == [i \in DOMAIN stored[d] |->
                    Event(None, names[owner[d]], d, stored[d][i].kind, stored[d][i].num)]
<1>1. Dict(stored[d])
  BY DictsOf DEF Typed, KnownTyped
<1>2. /\ DOMAIN stored[d] = 1..Len(stored[d]) /\ Len(stored[d]) \in Nat
      /\ \A i \in DOMAIN stored[d] : stored[d][i] \in Entries
  BY <1>1, DictForm
<1>3. names[owner[d]] \in Key
  OBVIOUS
<1>4. \A i \in DOMAIN stored[d] : r[i] \in Replayed
  BY <1>2, <1>3 DEF Event, Replayed, Entries
<1>5. r \in [1..Len(stored[d]) -> Replayed]
  BY <1>2, <1>4
<1>. HIDE DEF r
<1>6. r \in Seq(Replayed)
  BY <1>2, <1>5
<1>. QED  BY <1>6 DEF r

LEMMA SnapshotTyped ==
    ASSUME Typed, Snapshot
    PROVE  Typed'
<1>. DEFINE q == Stored(Peer, [p \in Peer |-> BaseName(p)])
<1>1. q \in [Device -> Seq(Replayed)]
  BY StoredTyped, KeysOfNames
<1>2. /\ pc' = [pc EXCEPT ![Mqtt] = "group"] /\ todo' = [todo EXCEPT ![Mqtt] = q]
      /\ UNCHANGED <<mem, baseId, bridge, disk, connected, broker, latest, job, group, counts>>
      /\ pc[Mqtt] = "connect"
  BY DEF Snapshot, Goto, past
<1>. HIDE DEF q
<1>3. HasJob(Mqtt, "group", job[Mqtt])
  BY ThreadHas, Kinds DEF HasJob
<1>4. ThreadTyped'
  BY <1>1, <1>2, <1>3, ThreadHas, ThreadGoes, Kinds DEF Steps
<1>. QED  BY <1>2, <1>4 DEF Typed, KnownTyped, BridgeTyped, DiskTyped, DocsTyped, ValuesTyped,
          CountTyped, mem, bridge, broker, counts

LEMMA GroupStartTyped ==
    ASSUME Typed, NEW t \in Thread, GroupStart(t)
    PROVE  Typed'
<1>1. /\ ThreadTyped /\ job[t] \in Events /\ HasJob(t, "group", job[t])
      /\ todo[t] \in [Device -> Seq(Replayed)] /\ group[t] \in Key \cup {None}
  BY ThreadHas DEF GroupStart
<1>2. \A s \in {"idle", "known", "replay"} : HasJob(t, s, job[t]) /\ s \in Steps
  BY <1>1 DEF HasJob, Steps
<1>3. ASSUME NEW d \in Left(t) PROVE Head(todo[t][d]).base \in Key
  <2>1. todo[t][d] \in Seq(Replayed) /\ todo[t][d] # <<>>
    BY <1>1, <1>3 DEF Left
  <2>2. Head(todo[t][d]) \in Replayed
    BY <2>1
  <2>. QED  BY <2>2 DEF Replayed
<1>4. UNCHANGED <<mem, baseId, announced, ready, disk, connected, broker, latest, job, counts>>
  BY DEF GroupStart
<1>5. ThreadTyped' /\ announcedBases' \subseteq Key /\ replaying' \in BOOLEAN
  <2>1. CASE /\ Left(t) = {} /\ Goto(t, IF t = Mqtt THEN "idle" ELSE "known")
             /\ UNCHANGED <<announcedBases, replaying, group, todo>>
    <3>1. PICK s \in {"idle", "known"} : pc' = [pc EXCEPT ![t] = s]
      BY <2>1 DEF Goto
    <3>2. ThreadTyped'
      BY <1>1, <1>2, <1>4, <2>1, <3>1, ThreadGoes
    <3>. QED  BY <2>1, <3>2 DEF Typed, BridgeTyped
  <2>2. CASE \E b \in {Head(todo[t][d]).base : d \in Left(t)} :
               /\ announcedBases' = announcedBases \cup {b}
               /\ IF ready
                    THEN /\ Goto(t, "replay") /\ replaying' = TRUE /\ UNCHANGED todo
                         /\ group' = [group EXCEPT ![t] = b]
                    ELSE /\ Goto(t, "idle") /\ todo' = [todo EXCEPT ![t] = NoTodo]
                         /\ UNCHANGED <<replaying, group>>
    <3>1. PICK b \in Key :
               /\ announcedBases' = announcedBases \cup {b}
               /\ IF ready
                    THEN /\ Goto(t, "replay") /\ replaying' = TRUE /\ UNCHANGED todo
                         /\ group' = [group EXCEPT ![t] = b]
                    ELSE /\ Goto(t, "idle") /\ todo' = [todo EXCEPT ![t] = NoTodo]
                         /\ UNCHANGED <<replaying, group>>
      BY <1>3, <2>2
    <3>2. ThreadTyped'
      <4>1. CASE ready
        BY <1>1, <1>2, <1>4, <3>1, <4>1, ThreadGoes DEF Goto
      <4>2. CASE ~ready
        BY <1>1, <1>2, <1>4, <3>1, <4>2, NoJobTyped, ThreadGoes DEF Goto
      <4>. QED  BY <4>1, <4>2
    <3>. QED  BY <3>1, <3>2 DEF Typed, BridgeTyped
  <2>. QED  BY <2>1, <2>2 DEF GroupStart
<1>. QED  BY <1>4, <1>5 DEF Typed, KnownTyped, BridgeTyped, DiskTyped, DocsTyped, ValuesTyped,
          CountTyped, mem, broker, counts

\* What publishing an event does to the documents.
LEMMA PublishTyped ==
    ASSUME Typed, NEW e, e.dev \in Device, e.kind \in Kind \cup {"deleted"},
           e.kind \in Kind => e.num \in Number, NEW b \in Key \cup {None}, PublishEvent(e, b),
           latest' = latest
    PROVE  DocsTyped' /\ ValuesTyped' /\ announced' \subseteq Device \cup Key
<1>1. /\ disc \in [Device -> [version : 0..MaxFaults + 1, via : Key \cup {None}]] /\ baseDoc \subseteq Key
      /\ value \in [Device -> [Topic -> 0..MaxEvents]] /\ latest \in [Device -> [Topic -> 0..MaxEvents]]
      /\ heard \in [Number -> Nat] /\ starts \in 1..MaxFaults + 1 /\ announced \subseteq Device \cup Key
      /\ MaxFaults \in Nat /\ MaxEvents \in Nat
  BY DeviceRegistryAssumption DEF Typed, DocsTyped, ValuesTyped, CountTyped, BridgeTyped
<1>2. CASE e.kind = "deleted"
  <2>1. RemoveDevice(e.dev) /\ baseDoc' = baseDoc
    BY <1>2 DEF PublishEvent
  <2>2. disc' \in [Device -> [version : 0..MaxFaults + 1, via : Key \cup {None}]]
    <3>1. NoDoc \in [version : 0..MaxFaults + 1, via : Key \cup {None}]
      BY <1>1 DEF NoDoc
    <3>. QED  BY <1>1, <2>1, <3>1 DEF RemoveDevice
  <2>3. value' \in [Device -> [Topic -> 0..MaxEvents]]
    <3>1. [x \in Topic |-> IF x = "pressure" THEN value[e.dev][x] ELSE 0] \in [Topic -> 0..MaxEvents]
      BY <1>1
    <3>. QED  BY <1>1, <2>1, <3>1 DEF RemoveDevice
  <2>4. announced' \subseteq Device \cup Key /\ heard' = heard
    BY <1>1, <2>1 DEF RemoveDevice
  <2>. QED  BY <1>1, <2>1, <2>2, <2>3, <2>4 DEF DocsTyped, ValuesTyped
<1>3. CASE e.kind # "deleted"
  <2>1. Announce(e.dev, b) /\ PublishValue(e) /\ baseDoc' = baseDoc /\ e.num \in Number
    BY <1>3 DEF PublishEvent
  <2>2. disc' \in [Device -> [version : 0..MaxFaults + 1, via : Key \cup {None}]]
        /\ announced' \subseteq Device \cup Key
    <3>1. [version |-> starts, via |-> b] \in [version : 0..MaxFaults + 1, via : Key \cup {None}]
      BY <1>1
    <3>. QED  BY <1>1, <2>1, <3>1 DEF Announce
  <2>3. Shown(e) \in [Device -> [Topic -> 0..MaxEvents]]
    <3>1. [x \in Topic |-> IF x \in Carries[e.kind] THEN e.num ELSE value[e.dev][x]]
            \in [Topic -> 0..MaxEvents]
      BY <1>1, <2>1 DEF Number
    <3>2. Shown(e) = [value EXCEPT ![e.dev] =
                        [x \in Topic |-> IF x \in Carries[e.kind] THEN e.num ELSE value[e.dev][x]]]
      BY <1>1 DEF Shown
    <3>. QED  BY <1>1, <3>1, <3>2
  <2>4. [heard EXCEPT ![e.num] = @ + 1] \in [Number -> Nat]
    BY <1>1, <2>1
  <2>5. value' \in [Device -> [Topic -> 0..MaxEvents]] /\ heard' \in [Number -> Nat]
    <3>1. \/ value' = Shown(e) /\ heard' = heard
          \/ value' = value /\ heard' = [heard EXCEPT ![e.num] = @ + 1]
          \/ value' = value /\ heard' = heard
      BY <2>1 DEF PublishValue
    <3>. QED  BY <1>1, <2>3, <2>4, <3>1
  <2>. QED  BY <1>1, <2>1, <2>2, <2>5 DEF DocsTyped, ValuesTyped
<1>. QED  BY <1>2, <1>3

LEMMA ReplayTyped ==
    ASSUME Typed, NEW t \in Thread, ReplayOne(t) \/ ReplayEnd(t)
    PROVE  Typed'
<1>1. /\ ThreadTyped /\ job[t] \in Events /\ HasJob(t, "replay", job[t])
      /\ todo[t] \in [Device -> Seq(Replayed)] /\ group[t] \in Key \cup {None} /\ pc[t] = "replay"
      /\ HasJob(t, "group", job[t]) /\ "group" \in Steps /\ "replay" \in Steps /\ t \in DOMAIN todo
  BY ThreadHas DEF ReplayOne, ReplayEnd, HasJob, Steps
<1>2. CASE ReplayEnd(t)
  <2>1. /\ replaying' = FALSE /\ pc' = [pc EXCEPT ![t] = "group"]
        /\ group' = [group EXCEPT ![t] = None]
        /\ UNCHANGED <<mem, baseId, announcedBases, announced, ready, disk, connected, broker, latest,
                       job, todo, counts>>
    BY <1>2 DEF ReplayEnd, Goto, past
  <2>2. ThreadTyped'
    BY <1>1, <2>1, ThreadGoes
  <2>. QED  BY <2>1, <2>2 DEF Typed, KnownTyped, BridgeTyped, DiskTyped, DocsTyped, ValuesTyped,
            CountTyped, mem, broker, counts
<1>3. CASE ReplayOne(t)
  <2>1. PICK d \in InGroup(t) : /\ PublishEvent(Head(todo[t][d]), group[t])
                                /\ todo' = [todo EXCEPT ![t][d] = Tail(@)]
    BY <1>3 DEF ReplayOne
  <2>. DEFINE e == Head(todo[t][d])
              q == [todo[t] EXCEPT ![d] = Tail(todo[t][d])]
  <2>2. d \in Device /\ todo[t][d] # <<>> /\ todo[t][d] \in Seq(Replayed)
    BY <1>1 DEF InGroup, Left
  <2>3. e \in Replayed /\ Tail(todo[t][d]) \in Seq(Replayed)
    BY <2>2
  <2>4. q \in [Device -> Seq(Replayed)] /\ todo' = [todo EXCEPT ![t] = q]
    BY <1>1, <2>1, <2>2, <2>3
  <2>. HIDE DEF e, q
  <2>5. UNCHANGED <<mem, baseId, announcedBases, replaying, ready, disk, connected, latest, pc, job,
                    group, counts>>
    BY <1>3, <2>1 DEF ReplayOne, PublishEvent
  <2>6. ThreadTyped'
    BY <1>1, <2>4, <2>5, ThreadGoes
  <2>7. e.dev \in Device /\ e.kind \in Kind /\ e.num \in Number /\ PublishEvent(e, group[t])
    BY <2>1, <2>3 DEF Replayed, e
  <2>8. DocsTyped' /\ ValuesTyped' /\ announced' \subseteq Device \cup Key
    BY <1>1, <2>5, <2>7, PublishTyped
  <2>. QED  BY <2>5, <2>6, <2>8 DEF Typed, KnownTyped, BridgeTyped, DiskTyped, CountTyped, mem, counts
<1>. QED  BY <1>2, <1>3

\* A request comes in, and its base is known.
LEMMA PostTyped ==
    ASSUME Typed, NEW t \in Conn, NEW p \in Peer, NEW d, NEW k, Post(t, p, d, k),
           \/ d \in Device /\ k \in Kind \cup {"deleted"}
           \/ d = None /\ k = "none"
    PROVE  Typed'
<1>. DEFINE n == IF k \in Kind THEN events' ELSE 0
            e == Event(p, BaseName(p), d, k, n)
<1>1. /\ events \in 0..MaxEvents /\ MaxEvents \in Nat /\ (k \in Kind => events < MaxEvents)
      /\ events' = IF k \in Kind THEN events + 1 ELSE events
      /\ job' = [job EXCEPT ![t] = e] /\ pc' = [pc EXCEPT ![t] = "base"]
      /\ UNCHANGED <<mem, baseId, bridge, disk, connected, broker, latest, todo, group, starts, drops>>
  BY Kinds DEF Post, Goto, Typed, CountTyped, past
<1>2. events' \in 0..MaxEvents /\ n \in 0..MaxEvents /\ (k \in Kind => n \in Number)
  BY <1>1 DEF Number
<1>3. BaseName(p) \in Key
  BY KeysOfNames
<1>4. e \in Events /\ HasJob(t, "base", e) /\ t \in Thread
  <2>1. e.peer = p /\ e.base = BaseName(p) /\ e.dev = d /\ e.kind = k /\ e.num = n
    BY DEF Event
  <2>2. e \in Events
    BY <1>2, <1>3 DEF Event, Events
  <2>. QED  BY <1>2, <1>3, <2>1, <2>2, Kinds DEF HasJob
<1>. HIDE DEF e, n
<1>5. ThreadTyped'
  BY <1>1, <1>4, ThreadHas, ThreadGoes DEF Steps
<1>. QED  BY <1>1, <1>2, <1>5 DEF Typed, KnownTyped, BridgeTyped, DiskTyped, DocsTyped, ValuesTyped,
          CountTyped, mem, bridge, broker

LEMMA RenameTyped ==
    ASSUME Typed, NEW t \in Conn, Rename(t)
    PROVE  Typed'
<1>. DEFINE p == job[t].peer
            b == job[t].base
            stale == {keyOf[p]} \ ({None, b} \cup {keyOf[q] : q \in Peer \ {p}})
            back == Stored(Peer, [q \in Peer |-> NameAmong(keyOf', q)])
<1>1. /\ ThreadTyped /\ t \in Thread /\ pc[t] = "base" /\ job[t] \in Events /\ HasJob(t, "base", job[t])
      /\ todo[t] \in [Device -> Seq(Replayed)] /\ group[t] \in Key \cup {None}
  BY Kinds, ThreadHas DEF Rename
<1>2. p \in Peer /\ b \in Key
  BY <1>1 DEF HasJob
<1>3. /\ keyOf' = [keyOf EXCEPT ![p] = b]
      /\ disk' = disk \/ SaveCommandState(owner, keyOf')
      /\ \/ Retire(t, stale)
         \/ Goto(t, "known") /\ UNCHANGED <<announced, baseDoc, todo>>
      /\ UNCHANGED <<stored, owner, baseId, announcedBases, replaying, ready, connected, disc, value,
                     heard, latest, job, group, counts>>
  BY DEF Rename
<1>4. \A s \in {"known", "group"} : s \in Steps /\ HasJob(t, s, job[t])
  BY <1>1, <1>2 DEF HasJob, Steps
<1>5. keyOf' \in [Peer -> Key \cup {None}]
  BY <1>2, <1>3 DEF Typed, KnownTyped
<1>6. KnownTyped'
  BY <1>3, <1>5 DEF Typed, KnownTyped, Dicts
<1>7. DiskTyped'
  BY <1>3, <1>5 DEF Typed, KnownTyped, DiskTyped, SaveCommandState, Dicts
<1>8. back \in [Device -> Seq(Replayed)]
  <2>1. [q \in Peer |-> NameAmong(keyOf', q)] \in [Peer -> Key]
    BY KeysOfNames
  <2>. QED  BY <2>1, StoredTyped
<1>. HIDE DEF back
<1>9. ThreadTyped' /\ announced' \subseteq Device \cup Key /\ baseDoc' \subseteq Key
  <2>1. CASE Retire(t, stale)
    <3>1. /\ pc' = [pc EXCEPT ![t] = "group"] /\ todo' = [todo EXCEPT ![t] = back]
          /\ announced' = {} /\ baseDoc' \subseteq baseDoc
      BY <2>1 DEF Retire, Goto, back
    <3>2. ThreadTyped'
      BY <1>1, <1>3, <1>4, <1>8, <3>1, ThreadGoes
    <3>. QED  BY <3>1, <3>2 DEF Typed, DocsTyped
  <2>2. CASE Goto(t, "known") /\ UNCHANGED <<announced, baseDoc, todo>>
    <3>1. ThreadTyped'
      BY <1>1, <1>3, <1>4, <2>2, ThreadGoes DEF Goto
    <3>. QED  BY <2>2, <3>1 DEF Typed, DocsTyped, BridgeTyped
  <2>. QED  BY <1>3, <2>1, <2>2
<1>. QED  BY <1>3, <1>6, <1>7, <1>9 DEF Typed, BridgeTyped, DocsTyped, ValuesTyped, CountTyped, counts

LEMMA BaseTyped ==
    ASSUME Typed, NEW t \in Conn, Base(t)
    PROVE  Typed'
<1>. DEFINE b == job[t].base
            back == Stored({job[t].peer}, [p \in Peer |-> b])
<1>1. /\ ThreadTyped /\ t \in Thread /\ pc[t] = "known" /\ job[t] \in Events
      /\ HasJob(t, "known", job[t])
      /\ todo[t] \in [Device -> Seq(Replayed)] /\ group[t] \in Key \cup {None}
  BY Kinds, ThreadHas DEF Base
<1>2. job[t].peer \in Peer /\ b \in Key
  BY <1>1 DEF HasJob
<1>3. /\ announced' = announced \cup {b} /\ baseDoc' \in {baseDoc, baseDoc \cup {b}}
      /\ UNCHANGED <<mem, baseId, replaying, ready, disk, connected, disc, value, heard, latest, group,
                     counts>>
  BY DEF Base, past
<1>4. back \in [Device -> Seq(Replayed)]
  <2>1. [p \in Peer |-> b] \in [Peer -> Key] /\ {job[t].peer} \in SUBSET Peer
    BY <1>2
  <2>. QED  BY <2>1, StoredTyped
<1>5. ThreadTyped' /\ announcedBases' \subseteq Key
  <2>1. CASE b \in announcedBases /\ job[t].kind = "none"
    <3>1. /\ pc' = [pc EXCEPT ![t] = "idle"] /\ job' = [job EXCEPT ![t] = NoJob]
          /\ UNCHANGED <<announcedBases, todo>>
      BY <2>1 DEF Base, Goto
    <3>2. ThreadTyped'
      BY <1>1, <1>3, <3>1, NoJobTyped, ThreadGoes DEF Steps
    <3>. QED  BY <3>1, <3>2 DEF Typed, BridgeTyped
  <2>2. CASE b \in announcedBases /\ job[t].kind # "none"
    <3>1. pc' = [pc EXCEPT ![t] = "update"] /\ UNCHANGED <<job, announcedBases, todo>>
      BY <2>2 DEF Base, Goto
    <3>2. HasJob(t, "update", job[t])
      BY <1>1, <2>2 DEF HasJob
    <3>3. ThreadTyped'
      BY <1>1, <1>3, <3>1, <3>2, ThreadGoes DEF Steps
    <3>. QED  BY <3>1, <3>3 DEF Typed, BridgeTyped
  <2>3. CASE b \notin announcedBases
    <3>1. /\ announcedBases' = announcedBases \cup {b} /\ todo' = [todo EXCEPT ![t] = back]
          /\ pc' = [pc EXCEPT ![t] = "group"] /\ UNCHANGED job
      BY <2>3 DEF Base, Goto
    <3>. HIDE DEF back
    <3>2. HasJob(t, "group", job[t])
      BY <1>1 DEF HasJob
    <3>3. ThreadTyped'
      BY <1>1, <1>3, <1>4, <3>1, <3>2, ThreadGoes DEF Steps
    <3>. QED  BY <1>2, <3>1, <3>3 DEF Typed, BridgeTyped
  <2>. QED  BY <2>1, <2>2, <2>3
<1>. QED  BY <1>2, <1>3, <1>5 DEF Typed, KnownTyped, BridgeTyped, DiskTyped, DocsTyped, ValuesTyped,
          CountTyped, mem, counts

\* The state is saved, each dictionary in the order of its sinks.
LEMMA SavedTyped ==
    ASSUME Typed, NEW s, Dicts(s), SaveState(s)
    PROVE  DiskTyped'
<1>. DEFINE f == [d \in Device |-> Sorted(s[d])]
<1>1. \A d \in Device : Dict(f[d])
  BY DictsOf, SortedDict
<1>2. f \in [Device -> Seq(Entries)]
  BY <1>1 DEF Dict
<1>3. Dicts(f)
  BY <1>1, <1>2, DictsOf
<1>4. disk' = [disk EXCEPT !.stored = f]
  BY DEF SaveState
<1>. HIDE DEF f
<1>. QED  BY <1>3, <1>4 DEF Typed, DiskTyped, Dicts

LEMMA UpdateTyped ==
    ASSUME Typed, NEW t \in Conn, Update(t)
    PROVE  Typed'
<1>. DEFINE e == job[t]
            gone == e.kind = "deleted"
            one == IF gone THEN <<>> ELSE Put(stored[e.dev], e.kind, e.num)
            last == IF gone THEN Empty ELSE
                      [x \in Topic |-> IF x \in Carries[e.kind] THEN e.num ELSE latest[e.dev][x]]
<1>1. /\ ThreadTyped /\ t \in Thread /\ pc[t] = "update" /\ e \in Events /\ HasJob(t, "update", e)
      /\ todo[t] \in [Device -> Seq(Replayed)] /\ group[t] \in Key \cup {None}
  BY Kinds, ThreadHas DEF Update
<1>2. /\ e.dev \in Device /\ e.peer \in Peer /\ e.kind \in Kind \cup {"deleted"}
      /\ e.kind \in Kind => e.num \in Number
  BY <1>1 DEF HasJob, Events
<1>3. /\ Dicts(stored) /\ owner \in [Device -> Peer \cup {None}]
      /\ latest \in [Device -> [Topic -> 0..MaxEvents]] /\ MaxEvents \in Nat
  BY Kinds DEF Typed, KnownTyped, ValuesTyped
<1>4. /\ stored' = [stored EXCEPT ![e.dev] = one]
      /\ owner' = [owner EXCEPT ![e.dev] = IF gone THEN None ELSE e.peer]
      /\ latest' = [latest EXCEPT ![e.dev] = last]
      /\ SaveState(stored')
      /\ pc' = [pc EXCEPT ![t] = IF owner' = owner THEN "publish" ELSE "save"]
      /\ UNCHANGED <<keyOf, baseId, bridge, connected, broker, job, todo, group, counts>>
  <2>1. stored' = [stored EXCEPT ![e.dev] = one]
    BY DEF Update
  <2>2. latest' = [latest EXCEPT ![e.dev] = last]
    BY DEF Update
  <2>. QED  BY <2>1, <2>2 DEF Update, Goto
<1>5. Dict(one)
  <2>1. Dict(<<>>)
    BY DEF Dict
  <2>2. Dict(stored[e.dev])
    BY <1>2, <1>3, DictsOf
  <2>. QED  BY <1>2, <2>1, <2>2, PutDict
<1>6. last \in [Topic -> 0..MaxEvents]
  BY <1>2, <1>3 DEF Empty, Number
<1>. HIDE DEF one, last
<1>7. Dicts(stored')
  <2>1. stored \in [Device -> Seq(Entries)] /\ \A d \in Device : Dict(stored[d])
    BY <1>3, DictsOf
  <2>2. stored' \in [Device -> Seq(Entries)] /\ \A d \in Device : Dict(stored'[d])
    <3>1. one \in Seq(Entries)
      BY <1>5 DEF Dict
    <3>2. \A d \in Device : stored'[d] = IF d = e.dev THEN one ELSE stored[d]
      BY <1>4, <2>1
    <3>. QED  BY <1>4, <1>5, <2>1, <3>1, <3>2
  <2>. QED  BY <2>2, DictsOf
<1>8. KnownTyped' /\ ValuesTyped'
  <2>1. owner' \in [Device -> Peer \cup {None}]
    BY <1>2, <1>3, <1>4
  <2>2. latest' \in [Device -> [Topic -> 0..MaxEvents]]
    BY <1>3, <1>4, <1>6
  <2>. QED  BY <1>4, <1>7, <2>1, <2>2 DEF Typed, KnownTyped, ValuesTyped, broker, Dicts
<1>9. DiskTyped'
  BY <1>4, <1>7, SavedTyped
<1>10. ThreadTyped'
  <2>1. \A s \in {"publish", "save"} : s \in Steps /\ HasJob(t, s, e)
    BY <1>1 DEF HasJob, Steps
  <2>2. PICK s \in {"publish", "save"} : pc' = [pc EXCEPT ![t] = s]
    BY <1>4
  <2>. QED  BY <1>1, <1>4, <2>1, <2>2, ThreadGoes
<1>. QED  BY <1>4, <1>8, <1>9, <1>10 DEF Typed, BridgeTyped, DocsTyped, CountTyped, bridge, broker, counts

LEMMA SaveTyped ==
    ASSUME Typed, NEW t \in Thread, Save(t)
    PROVE  Typed'
<1>1. /\ ThreadTyped /\ job[t] \in Events /\ HasJob(t, "save", job[t])
      /\ todo[t] \in [Device -> Seq(Replayed)] /\ group[t] \in Key \cup {None}
  BY ThreadHas DEF Save
<1>2. /\ SaveCommandState(owner, keyOf) /\ pc' = [pc EXCEPT ![t] = "publish"]
      /\ UNCHANGED <<mem, baseId, bridge, connected, broker, latest, job, todo, group, counts>>
  BY DEF Save, Goto, past
<1>3. HasJob(t, "publish", job[t]) /\ "publish" \in Steps
  BY <1>1 DEF HasJob, Steps
<1>4. ThreadTyped'
  BY <1>1, <1>2, <1>3, ThreadGoes
<1>5. DiskTyped'
  BY <1>2 DEF Typed, KnownTyped, DiskTyped, SaveCommandState, Dicts
<1>. QED  BY <1>2, <1>4, <1>5 DEF Typed, KnownTyped, BridgeTyped, DocsTyped, ValuesTyped, CountTyped,
          mem, bridge, broker, counts

LEMMA PublishedTyped ==
    ASSUME Typed, NEW t \in Thread, Publish(t)
    PROVE  Typed'
<1>1. /\ ThreadTyped /\ job[t] \in Events /\ HasJob(t, "publish", job[t])
      /\ todo[t] \in [Device -> Seq(Replayed)] /\ group[t] \in Key \cup {None}
  BY ThreadHas DEF Publish
<1>2. /\ PublishEvent(job[t], job[t].base)
      /\ job' = [job EXCEPT ![t] = NoJob] /\ pc' = [pc EXCEPT ![t] = "idle"]
      /\ UNCHANGED <<mem, baseId, announcedBases, replaying, ready, disk, connected, latest, todo,
                     group, counts>>
  BY DEF Publish, Goto, PublishEvent
<1>3. /\ job[t].dev \in Device /\ job[t].kind \in Kind \cup {"deleted"}
      /\ job[t].kind \in Kind => job[t].num \in Number
      /\ job[t].base \in Key \cup {None}
  BY <1>1 DEF HasJob, Events
<1>4. DocsTyped' /\ ValuesTyped' /\ announced' \subseteq Device \cup Key
  BY <1>2, <1>3, PublishTyped
<1>5. ThreadTyped'
  BY <1>1, <1>2, NoJobTyped, ThreadGoes DEF Steps
<1>. QED  BY <1>2, <1>4, <1>5 DEF Typed, KnownTyped, BridgeTyped, DiskTyped, CountTyped, mem, counts

LEMMA ForgetTyped ==
    ASSUME Typed, NEW d \in Device, Forget(d)
    PROVE  Typed'
<1>. DEFINE e == Event(None, None, d, "deleted", 0)
<1>1. /\ stored' = [stored EXCEPT ![d] = <<>>]
      /\ owner' = [owner EXCEPT ![d] = None]
      /\ latest' = [latest EXCEPT ![d] = Empty]
      /\ SaveState(stored')
      /\ job' = [job EXCEPT ![Mqtt] = e]
      /\ pc' = [pc EXCEPT ![Mqtt] = IF owner' = owner THEN "publish" ELSE "save"]
      /\ UNCHANGED <<keyOf, baseId, bridge, connected, broker, todo, group, counts>>
  BY DEF Forget, Goto
<1>2. Dicts(stored')
  <2>1. stored \in [Device -> Seq(Entries)] /\ \A x \in Device : Dict(stored[x])
    BY DictsOf DEF Typed, KnownTyped
  <2>2. stored' \in [Device -> Seq(Entries)] /\ \A x \in Device : Dict(stored'[x])
    BY <1>1, <2>1 DEF Dict
  <2>. QED  BY <2>2, DictsOf
<1>3. KnownTyped' /\ ValuesTyped'
  <2>1. Empty \in [Topic -> 0..MaxEvents]
    BY Kinds DEF Empty
  <2>. QED  BY <1>1, <1>2, <2>1 DEF Typed, KnownTyped, ValuesTyped, broker, Dicts
<1>4. DiskTyped'
  BY <1>1, <1>2, SavedTyped
<1>5. ThreadTyped'
  <2>1. e \in Events /\ \A s \in {"publish", "save"} : s \in Steps /\ HasJob(Mqtt, s, e)
    BY Kinds DEF HasJob, Steps, Event, Events
  <2>2. PICK s \in {"publish", "save"} : pc' = [pc EXCEPT ![Mqtt] = s]
    BY <1>1
  <2>. HIDE DEF e
  <2>. QED  BY <1>1, <2>1, <2>2, Kinds, ThreadHas, ThreadGoes
<1>. QED  BY <1>1, <1>3, <1>4, <1>5 DEF Typed, BridgeTyped, DocsTyped, CountTyped, bridge, broker, counts

LEMMA ChooseTyped ==
    ASSUME Typed, NEW d \in Device, Choose(d)
    PROVE  Typed'
<1>1. /\ events < MaxEvents /\ events' = events + 1
      /\ value' = [value EXCEPT ![d].setpoint = events']
      /\ UNCHANGED <<mem, baseId, bridge, disk, connected, disc, baseDoc, heard, latest, thread,
                     starts, drops>>
  BY DEF Choose, past
<1>2. events' \in 0..MaxEvents
  BY <1>1, Kinds DEF Typed, CountTyped
<1>3. value' \in [Device -> [Topic -> 0..MaxEvents]]
  BY <1>1, <1>2 DEF Typed, ValuesTyped
<1>. QED  BY <1>1, <1>2, <1>3 DEF Typed, KnownTyped, BridgeTyped, DiskTyped, DocsTyped, ValuesTyped,
          ThreadTyped, CountTyped, HasJob, Dicts, mem, bridge, thread

LEMMA WorldTyped ==
    ASSUME Typed, Assign \/ Drop \/ Reconnect \/ UNCHANGED vars
    PROVE  Typed'
<1>1. CASE Assign
  BY <1>1 DEF Assign, Typed, KnownTyped, BridgeTyped, DiskTyped, DocsTyped, ValuesTyped,
     ThreadTyped, CountTyped, HasJob, Dicts, mem, broker, past, thread, counts
<1>2. CASE Drop
  <2>1. drops' \in 0..MaxFaults
    BY <1>2, DeviceRegistryAssumption DEF Drop, Typed, CountTyped
  <2>. QED  BY <1>2, <2>1 DEF Drop, Typed, KnownTyped, BridgeTyped, DiskTyped, DocsTyped, ValuesTyped,
     ThreadTyped, CountTyped, HasJob, Dicts, mem, bridge, broker, past, thread
<1>3. CASE Reconnect
  <2>1. /\ pc[Mqtt] \in {"idle", "connect"} /\ pc' = [pc EXCEPT ![Mqtt] = "connect"]
        /\ UNCHANGED <<mem, baseId, bridge, disk, broker, latest, job, todo, group, counts>>
        /\ connected' = TRUE
    BY <1>3 DEF Reconnect, Idle, Goto, past
  <2>2. HasJob(Mqtt, "connect", job[Mqtt]) /\ "connect" \in Steps
    BY <2>1, ThreadHas, Kinds DEF HasJob, Steps
  <2>3. ThreadTyped'
    BY <2>1, <2>2, ThreadHas, ThreadGoes, Kinds
  <2>. QED  BY <2>1, <2>3 DEF Typed, KnownTyped, BridgeTyped, DiskTyped, DocsTyped, ValuesTyped,
       CountTyped, Dicts, mem, bridge, broker, counts
<1>4. CASE UNCHANGED vars
  BY <1>4 DEF vars, Typed, KnownTyped, BridgeTyped, DiskTyped, DocsTyped, ValuesTyped,
     ThreadTyped, CountTyped, HasJob, Dicts, mem, bridge, broker, past, thread, counts
<1>. QED  BY <1>1, <1>2, <1>3, <1>4

LEMMA RestartTyped ==
    ASSUME Typed, Restart
    PROVE  Typed'
<1>1. /\ starts + drops <= MaxFaults /\ starts' = starts + 1
      /\ stored' = disk.stored /\ owner' = disk.owner /\ keyOf' = disk.keyOf
      /\ baseId' \in {None, OwnId, baseId}
      /\ announcedBases' = {} /\ announced' = {} /\ replaying' = FALSE /\ ready' = FALSE
      /\ connected' = TRUE
      /\ pc' = [t \in Thread |-> IF t = Mqtt THEN "connect" ELSE "idle"]
      /\ job' = [t \in Thread |-> NoJob] /\ todo' = [t \in Thread |-> NoTodo]
      /\ group' = [t \in Thread |-> None]
      /\ UNCHANGED <<disk, broker, latest, events, drops>>
  BY DEF Restart
<1>2. KnownTyped' /\ DiskTyped'
  BY <1>1 DEF Typed, KnownTyped, DiskTyped, Dicts
<1>3. ThreadTyped'
  <2>1. pc' \in [Thread -> Steps] /\ \A t \in Thread : pc'[t] = "idle" \/ (t = Mqtt /\ pc'[t] = "connect")
    BY <1>1 DEF Steps
  <2>2. job' \in [Thread -> Events] /\ todo' \in [Thread -> [Device -> Seq(Replayed)]]
        /\ group' \in [Thread -> Key \cup {None}] /\ \A t \in Thread : job'[t] = NoJob
    BY <1>1, NoJobTyped
  <2>3. \A t \in Thread : HasJob(t, pc'[t], job'[t])
    BY <2>1, <2>2, NoJobTyped DEF Steps
  <2>. QED  BY <2>1, <2>2, <2>3 DEF ThreadTyped, HasJob
<1>4. CountTyped'
  BY <1>1, DeviceRegistryAssumption DEF Typed, CountTyped
<1>. QED  BY <1>1, <1>2, <1>3, <1>4 DEF Typed, BridgeTyped, DocsTyped, ValuesTyped, broker

LEMMA NextTyped == Typed /\ [Next]_vars => Typed'
<1>. SUFFICES ASSUME Typed, [Next]_vars PROVE Typed'
  OBVIOUS
<1>1. ASSUME NEW t \in Conn, NEW p \in Peer, NEW d \in Device, NEW k \in Kind \cup {"deleted"},
             Post(t, p, d, k)
      PROVE  Typed'
  BY <1>1, PostTyped
<1>2. ASSUME NEW t \in Conn, NEW p \in Peer, Post(t, p, None, "none")
      PROVE  Typed'
  BY <1>2, PostTyped
<1>3. ASSUME NEW t \in Conn, Rename(t) \/ Base(t) \/ Update(t)
      PROVE  Typed'
  BY <1>3, RenameTyped, BaseTyped, UpdateTyped
<1>4. ASSUME NEW t \in Thread,
             GroupStart(t) \/ ReplayOne(t) \/ ReplayEnd(t) \/ Save(t) \/ Publish(t)
      PROVE  Typed'
  BY <1>4, GroupStartTyped, ReplayTyped, SaveTyped, PublishedTyped
<1>5. ASSUME NEW d \in Device, Forget(d) \/ Choose(d)
      PROVE  Typed'
  BY <1>5, ForgetTyped, ChooseTyped
<1>6. ASSUME Snapshot \/ Restart \/ Assign \/ Drop \/ Reconnect \/ UNCHANGED vars
      PROVE  Typed'
  BY <1>6, SnapshotTyped, RestartTyped, WorldTyped
<1>. QED  BY <1>1, <1>2, <1>3, <1>4, <1>5, <1>6 DEF Next

\* What a replay has before it is of the numbers of events, a key that is retired a key.
LEMMA BegunTyped == ASSUME Typed PROVE \A t \in Thread : Begun(t) \subseteq Number
<1>. SUFFICES ASSUME NEW t \in Thread, NEW d \in Device, NEW i \in DOMAIN todo[t][d]
              PROVE  todo[t][d][i].num \in Number
  BY DEF Begun, InGroup, Left
<1>1. todo[t][d] \in Seq(Replayed)
  BY ThreadHas
<1>2. todo[t][d][i] \in Replayed
  BY <1>1
<1>. QED  BY <1>2 DEF Replayed

LEMMA PastNext == Typed /\ PastTyped /\ [Next]_vars => PastTyped'
<1>. SUFFICES ASSUME Typed, PastTyped, [Next]_vars PROVE PastTyped'
  OBVIOUS
<1>0. crossed \subseteq Device /\ missed \subseteq Device /\ mixed \subseteq Key
      /\ exposed \subseteq Number /\ keyOf \in [Peer -> Key \cup {None}]
  BY DEF PastTyped, Typed, KnownTyped
<1>1. ASSUME NEW e, e.dev \in Device, NEW b, PublishEvent(e, b) PROVE PastTyped'
  BY <1>0, <1>1 DEF PublishEvent, PastTyped
<1>2. ASSUME NEW t \in Thread, NEW e, e.dev \in Device, Meet(t, e), UNCHANGED <<mixed, exposed>>
      PROVE  PastTyped'
  BY <1>0, <1>2 DEF Meet, PastTyped
<1>3. ASSUME NEW t \in Conn, NEW p \in Peer, NEW d, NEW k, Post(t, p, d, k) PROVE PastTyped'
  BY <1>0, <1>3 DEF Post, past, PastTyped
<1>4. ASSUME NEW t \in Conn, Rename(t) PROVE PastTyped'
  <2>1. job[t].peer \in Peer
    BY <1>4, ThreadHas, Kinds DEF Rename, HasJob
  <2>2. crossed' = crossed /\ missed' = missed /\ exposed' = exposed
    BY <1>4 DEF Rename
  <2>3. mixed' \subseteq mixed \cup ({keyOf[job[t].peer]} \ {None})
    BY <1>4 DEF Rename, Retire, Mixed
  <2>. QED  BY <1>0, <2>1, <2>2, <2>3 DEF PastTyped
<1>5. ASSUME NEW t \in Conn, Base(t) PROVE PastTyped'
  BY <1>0, <1>5 DEF Base, past, PastTyped
<1>6. ASSUME NEW t \in Conn, Update(t) PROVE PastTyped'
  <2>1. job[t].dev \in Device /\ Meet(t, job[t]) /\ UNCHANGED <<mixed, exposed>>
    BY <1>6, ThreadHas, Kinds DEF Update, HasJob
  <2>. QED  BY <1>2, <2>1, Kinds
<1>7. ASSUME NEW t \in Thread, GroupStart(t) PROVE PastTyped'
  BY <1>0, <1>7 DEF GroupStart, PastTyped, Left
<1>8. ASSUME NEW t \in Thread, ReplayOne(t) PROVE PastTyped'
  <2>1. PICK d \in InGroup(t) : PublishEvent(Head(todo[t][d]), group[t])
    BY <1>8 DEF ReplayOne
  <2>2. todo[t][d] \in Seq(Replayed) /\ todo[t][d] # <<>>
    BY <2>1, ThreadHas DEF InGroup, Left
  <2>3. Head(todo[t][d]) \in Replayed
    BY <2>2
  <2>. QED  BY <1>1, <2>1, <2>3 DEF Replayed
<1>9. ASSUME NEW t \in Thread, ReplayEnd(t) PROVE PastTyped'
  <2>1. exposed' = exposed \cup UNION {Begun(u) : u \in Replaying \ {t}}
        /\ UNCHANGED <<crossed, missed, mixed>>
    BY <1>9 DEF ReplayEnd
  <2>. QED  BY <1>0, <2>1, BegunTyped DEF PastTyped, Replaying
<1>10. ASSUME NEW t \in Thread, Save(t) PROVE PastTyped'
  BY <1>0, <1>10 DEF Save, past, PastTyped
<1>11. ASSUME NEW t \in Thread, Publish(t) PROVE PastTyped'
  <2>1. job[t].dev \in Device /\ PublishEvent(job[t], job[t].base)
    BY <1>11, ThreadHas DEF Publish, HasJob
  <2>. QED  BY <1>1, <2>1
<1>12. ASSUME NEW d \in Device, Forget(d) PROVE PastTyped'
  <2>1. Event(None, None, d, "deleted", 0).dev = d
    BY DEF Event
  <2>2. Meet(Mqtt, Event(None, None, d, "deleted", 0)) /\ UNCHANGED <<mixed, exposed>>
    BY <1>12 DEF Forget
  <2>. QED  BY <1>2, <2>1, <2>2, Kinds
<1>13. ASSUME NEW d \in Device, Choose(d) PROVE PastTyped'
  BY <1>0, <1>13 DEF Choose, past, PastTyped
<1>14. ASSUME Snapshot \/ Assign \/ Drop \/ Reconnect \/ UNCHANGED vars PROVE PastTyped'
  BY <1>0, <1>14 DEF Snapshot, Assign, Drop, Reconnect, vars, past, PastTyped
<1>15. ASSUME Restart PROVE PastTyped'
  <2>1. missed' \subseteq missed \cup Device /\ UNCHANGED <<crossed, mixed, exposed>>
    BY <1>15 DEF Restart, Known
  <2>. QED  BY <1>0, <2>1 DEF PastTyped
<1>. QED  BY <1>3, <1>4, <1>5, <1>6, <1>7, <1>8, <1>9, <1>10, <1>11, <1>12, <1>13, <1>14, <1>15
          DEF Next

Form == Typed /\ PastTyped

LEMMA InitForm == Init => Form
  BY InitTyped DEF Form, Init, PastTyped

LEMMA NextForm == Form /\ [Next]_vars => Form'
  BY NextTyped, PastNext DEF Form

\* Whatever runs at the same time, is lost or is cut off, and whatever base_id a restart
\* comes with: the state, its file and what each thread carries stay of the form that the
\* code reads them in.  A device has an entry per sink, an event keeps its place as the
\* state is saved and read again, a thread publishes an event of a device only (record,
\* _forget_device, _replay_known_devices, atomic_json_write).
THEOREM TypesHold == Spec => []TypeOK
<1>1. Spec => []Form
  BY InitForm, NextForm, PTL DEF Spec
<1>2. Form => TypeOK
  BY TypedIsTyped DEF Form
<1>. QED  BY <1>1, <1>2, PTL

-----------------------------------------------------------------------------
(* Presses *)

\* The flag is up only while a replay runs; and what a replay has before it while the flag
\* is down was exposed as another one ended.
SilentInv == /\ replaying => Replaying # {}
             /\ \A t \in Replaying : replaying \/ Begun(t) \subseteq exposed

\* A step of a thread that is in no replay and does not enter one, or of none.
LEMMA StillSilent ==
    ASSUME Form, SilentInv, NEW t \in Thread,
           \A u \in Thread \ {t} : pc'[u] = pc[u] /\ todo'[u] = todo[u] /\ group'[u] = group[u],
           \/ pc[t] # "replay" /\ pc'[t] # "replay"
           \/ pc'[t] = pc[t] /\ todo'[t] = todo[t] /\ group'[t] = group[t],
           replaying' = replaying, exposed' = exposed
    PROVE  SilentInv'
<1>1. Replaying' = Replaying
  BY DEF Replaying
<1>2. \A u \in Replaying : Begun(u)' = Begun(u)
  <2>. SUFFICES ASSUME NEW u \in Replaying PROVE todo'[u] = todo[u] /\ group'[u] = group[u]
    BY DEF Begun, InGroup, Left
  <2>. QED  BY DEF Replaying
<1>. QED  BY <1>1, <1>2 DEF SilentInv

LEMMA SilentKept == Form /\ SilentInv /\ [Next]_vars => SilentInv'
<1>. SUFFICES ASSUME Form, SilentInv, [Next]_vars PROVE SilentInv'
  OBVIOUS
<1>0. pc \in [Thread -> Steps] /\ DOMAIN todo = Thread /\ DOMAIN group = Thread
      /\ Mqtt \in Thread /\ Conn \subseteq Thread
  BY Kinds DEF Form, Typed, ThreadTyped
<1>1. ASSUME NEW t \in Conn, NEW p \in Peer, NEW d, NEW k, Post(t, p, d, k) PROVE SilentInv'
  BY <1>0, <1>1, StillSilent DEF Post, Goto, past, bridge
<1>2. ASSUME NEW t \in Conn, Rename(t) PROVE SilentInv'
  <2>1. pc[t] = "base" /\ pc'[t] \in {"known", "group"}
        /\ \A u \in Thread \ {t} : pc'[u] = pc[u] /\ todo'[u] = todo[u] /\ group'[u] = group[u]
    BY <1>0, <1>2 DEF Rename, Retire, Goto
  <2>. QED  BY <1>0, <1>2, <2>1, StillSilent DEF Rename
<1>3. ASSUME NEW t \in Conn, Base(t) PROVE SilentInv'
  <2>1. pc[t] = "known" /\ pc'[t] \in {"idle", "update", "group"}
        /\ \A u \in Thread \ {t} : pc'[u] = pc[u] /\ todo'[u] = todo[u] /\ group'[u] = group[u]
    BY <1>0, <1>3 DEF Base, Goto
  <2>. QED  BY <1>0, <1>3, <2>1, StillSilent DEF Base, past
<1>4. ASSUME NEW t \in Conn, Update(t) PROVE SilentInv'
  <2>1. pc[t] = "update" /\ pc'[t] \in {"publish", "save"}
        /\ \A u \in Thread \ {t} : pc'[u] = pc[u] /\ todo'[u] = todo[u] /\ group'[u] = group[u]
    BY <1>0, <1>4 DEF Update, Goto
  <2>. QED  BY <1>0, <1>4, <2>1, StillSilent DEF Update, bridge
<1>5. ASSUME NEW t \in Thread, GroupStart(t) PROVE SilentInv'
  <2>1. CASE replaying' = replaying /\ pc'[t] \in {"idle", "known"}
    <3>1. pc[t] = "group"
          /\ \A u \in Thread \ {t} : pc'[u] = pc[u] /\ todo'[u] = todo[u] /\ group'[u] = group[u]
      BY <1>0, <1>5 DEF GroupStart, Goto
    <3>. QED  BY <1>5, <2>1, <3>1, StillSilent DEF GroupStart
  <2>2. CASE replaying' = TRUE /\ pc'[t] = "replay"
    BY <2>2 DEF SilentInv, Replaying
  <2>. QED  BY <1>0, <1>5, <2>1, <2>2 DEF GroupStart, Goto
<1>6. ASSUME NEW t \in Thread, ReplayOne(t) PROVE SilentInv'
  <2>1. PICK d \in InGroup(t) : todo' = [todo EXCEPT ![t][d] = Tail(@)]
    BY <1>6 DEF ReplayOne
  <2>2. /\ d \in Device /\ todo[t] \in [Device -> Seq(Replayed)] /\ todo[t][d] # <<>>
        /\ Head(todo[t][d]).base = group[t]
    BY <2>1, ThreadHas DEF InGroup, Left, Form
  <2>3. /\ UNCHANGED <<pc, group, replaying, exposed>>
        /\ \A u \in Thread \ {t} : todo'[u] = todo[u]
        /\ \A x \in Device \ {d} : todo'[t][x] = todo[t][x]
        /\ todo'[t][d] = Tail(todo[t][d])
    BY <1>0, <1>6, <2>1, <2>2 DEF ReplayOne, PublishEvent
  <2>4. Begun(t)' \subseteq Begun(t)
    <3>. SUFFICES ASSUME NEW x \in Device, todo'[t][x] # <<>>, Head(todo'[t][x]).base = group[t],
                         NEW i \in DOMAIN todo'[t][x]
                  PROVE  todo'[t][x][i].num \in Begun(t)
      BY <2>3 DEF Begun, InGroup, Left
    <3>1. CASE x # d
      BY <2>3, <3>1 DEF Begun, InGroup, Left
    <3>2. CASE x = d
      <4>1. i + 1 \in DOMAIN todo[t][d] /\ Tail(todo[t][d])[i] = todo[t][d][i + 1]
        BY <2>2, <2>3, <3>2, AnySeq, Rest
      <4>2. todo'[t][x][i].num = todo[t][d][i + 1].num
        BY <2>3, <3>2, <4>1
      <4>3. todo[t][d][i + 1].num \in Begun(t)
        <5>. DEFINE nums(y) == {todo[t][y][j].num : j \in DOMAIN todo[t][y]}
        <5>1. nums(d) \subseteq Begun(t)
          BY <2>1 DEF Begun
        <5>. QED  BY <4>1, <5>1
      <4>. QED  BY <4>2, <4>3
    <3>. QED  BY <3>1, <3>2
  <2>5. \A u \in Thread \ {t} : Begun(u)' = Begun(u)
    BY <2>3 DEF Begun, InGroup, Left
  <2>. QED  BY <2>3, <2>4, <2>5 DEF SilentInv, Replaying
<1>7. ASSUME NEW t \in Thread, ReplayEnd(t) PROVE SilentInv'
  <2>1. /\ pc' = [pc EXCEPT ![t] = "group"] /\ group' = [group EXCEPT ![t] = None]
        /\ todo' = todo /\ replaying' = FALSE
        /\ exposed' = exposed \cup UNION {Begun(u) : u \in Replaying \ {t}}
    BY <1>7 DEF ReplayEnd, Goto
  <2>2. Replaying' = Replaying \ {t}
    BY <1>0, <2>1 DEF Replaying
  <2>3. \A u \in Replaying \ {t} : Begun(u)' = Begun(u)
    BY <1>0, <2>1 DEF Begun, InGroup, Left, Replaying
  <2>. QED  BY <2>1, <2>2, <2>3 DEF SilentInv
<1>8. ASSUME NEW t \in Thread, Save(t) PROVE SilentInv'
  BY <1>0, <1>8, StillSilent DEF Save, Goto, past, bridge
<1>9. ASSUME NEW t \in Thread, Publish(t) PROVE SilentInv'
  BY <1>0, <1>9, StillSilent DEF Publish, PublishEvent, Goto
<1>10. ASSUME NEW d \in Device, Forget(d) PROVE SilentInv'
  <2>1. pc[Mqtt] = "idle" /\ pc'[Mqtt] \in {"publish", "save"}
        /\ \A u \in Thread \ {Mqtt} : pc'[u] = pc[u] /\ todo'[u] = todo[u] /\ group'[u] = group[u]
    BY <1>0, <1>10 DEF Forget, Goto
  <2>. QED  BY <1>0, <1>10, <2>1, StillSilent DEF Forget, bridge
<1>11. ASSUME NEW d \in Device, Choose(d) PROVE SilentInv'
  BY <1>0, <1>11, StillSilent DEF Choose, past, bridge, thread
<1>12. ASSUME Snapshot PROVE SilentInv'
  <2>1. pc[Mqtt] = "connect" /\ pc'[Mqtt] = "group"
        /\ \A u \in Thread \ {Mqtt} : pc'[u] = pc[u] /\ todo'[u] = todo[u] /\ group'[u] = group[u]
    BY <1>0, <1>12 DEF Snapshot, Goto
  <2>. QED  BY <1>0, <1>12, <2>1, StillSilent DEF Snapshot, past, bridge
<1>13. ASSUME Reconnect PROVE SilentInv'
  BY <1>0, <1>13, StillSilent DEF Reconnect, Idle, Goto, past, bridge
<1>14. ASSUME Assign \/ Drop \/ UNCHANGED vars PROVE SilentInv'
  <2>1. UNCHANGED <<thread, replaying, exposed>>
    BY <1>14 DEF Assign, Drop, vars, past, bridge
  <2>. QED  BY <1>0, <2>1, StillSilent DEF thread
<1>15. ASSUME Restart PROVE SilentInv'
  BY <1>15 DEF Restart, SilentInv, Replaying
<1>. QED  BY <1>1, <1>2, <1>3, <1>4, <1>5, <1>6, <1>7, <1>8, <1>9, <1>10, <1>11, <1>12, <1>13,
          <1>14, <1>15 DEF Next

\* An event that is still to be received, or that a thread is to publish as it came in.
Coming(n) == n > events \/ \E t \in Thread : job[t].kind \in Kind /\ job[t].num = n
\* A number is one thread's, and is heard once it is published, once, unless it is exposed.
HeardInv ==
    /\ \A t \in Thread : job[t].kind \in Kind => job[t].num \in 1..events
    /\ \A t, u \in Thread :
         job[t].kind \in Kind /\ job[u].kind \in Kind /\ job[t].num = job[u].num => t = u
    /\ \A n \in Number \ exposed : heard[n] <= 1 /\ (Coming(n) => heard[n] = 0)

LEMMA StillHeard ==
    ASSUME Form, Form', HeardInv, heard' = heard, exposed \subseteq exposed', events <= events',
           \A t \in Thread : job'[t] = job[t] \/ job'[t].kind \notin Kind
    PROVE  HeardInv'
<1>1. events \in Nat /\ events' \in Nat
  BY Kinds DEF Form, Typed, CountTyped
<1>2. \A t \in Thread : job'[t].kind \in Kind => job'[t] = job[t]
  OBVIOUS
<1>3. \A t \in Thread : job'[t].kind \in Kind => job'[t].num \in 1..events'
  <2>. SUFFICES ASSUME NEW t \in Thread, job'[t].kind \in Kind PROVE job'[t].num \in 1..events'
    OBVIOUS
  <2>1. job'[t] = job[t]
    BY <1>2
  <2>2. job[t].num \in 1..events
    BY <2>1 DEF HeardInv
  <2>. QED  BY <1>1, <2>1, <2>2
<1>4. \A t, u \in Thread :
         job'[t].kind \in Kind /\ job'[u].kind \in Kind /\ job'[t].num = job'[u].num => t = u
  BY <1>2 DEF HeardInv
<1>5. \A n \in Number : Coming(n)' => Coming(n)
  BY <1>1, <1>2, Kinds DEF Coming, Number
<1>6. \A n \in Number \ exposed' : heard'[n] <= 1 /\ (Coming(n)' => heard'[n] = 0)
  BY <1>5 DEF HeardInv
<1>. QED  BY <1>3, <1>4, <1>6 DEF HeardInv

\* A press that comes in has the next number.
LEMMA PostHeard ==
    ASSUME Form, Form', HeardInv, NEW t \in Conn, NEW p \in Peer, NEW d, NEW k, Post(t, p, d, k)
    PROVE  HeardInv'
<1>0. events \in Nat /\ events' \in Nat /\ t \in Thread /\ DOMAIN job = Thread
  BY Kinds DEF Form, Typed, CountTyped, ThreadTyped
<1>1. CASE k \notin Kind
  <2>1. job'[t].kind = k /\ \A u \in Thread \ {t} : job'[u] = job[u]
    BY <1>0 DEF Post, Event
  <2>. QED  BY <1>0, <1>1, <2>1, StillHeard DEF Post, past, broker
<1>2. CASE k \in Kind
  <2>1. /\ events' = events + 1 /\ heard' = heard /\ exposed' = exposed
        /\ job'[t].kind = k /\ job'[t].num = events + 1 /\ \A u \in Thread \ {t} : job'[u] = job[u]
    BY <1>0, <1>2 DEF Post, Event, past, broker
  <2>2. \A u \in Thread : job[u].kind \in Kind => job[u].num \in 1..events
    BY DEF HeardInv
  <2>3. \A u \in Thread : job'[u].kind \in Kind => job'[u].num \in 1..events'
    BY <1>0, <2>1, <2>2
  <2>4. \A u \in Thread \ {t} : job'[u].kind \in Kind => job'[u].num # events + 1
    BY <1>0, <2>1, <2>2
  <2>5. \A u, w \in Thread :
         job'[u].kind \in Kind /\ job'[w].kind \in Kind /\ job'[u].num = job'[w].num => u = w
    BY <2>1, <2>4 DEF HeardInv
  <2>6. \A n \in Number : Coming(n)' => Coming(n)
    <3>1. \A n \in Number : n \in Nat
      BY Kinds DEF Number
    <3>. QED  BY <1>0, <2>1, <3>1 DEF Coming
  <2>7. \A n \in Number \ exposed' : heard'[n] <= 1 /\ (Coming(n)' => heard'[n] = 0)
    BY <2>1, <2>6 DEF HeardInv
  <2>. QED  BY <2>3, <2>5, <2>7 DEF HeardInv
<1>. QED  BY <1>1, <1>2

\* What publishing an event does to presses.
LEMMA PublishHears ==
    ASSUME NEW e, NEW b, PublishEvent(e, b)
    PROVE  \/ heard' = heard
           \/ e.kind = "button" /\ ~replaying /\ heard' = [heard EXCEPT ![e.num] = @ + 1]
  BY DEF PublishEvent, RemoveDevice, PublishValue

\* The thread that got a press publishes it, and no other does but from a replay that was
\* left without the flag.
LEMMA PublishHeard ==
    ASSUME Form, Form', HeardInv, NEW t \in Thread, Publish(t)
    PROVE  HeardInv'
<1>0. events \in Nat /\ DOMAIN job = Thread /\ events' = events /\ exposed' = exposed
      /\ heard \in [Number -> Nat] /\ job[t].kind \in Kind \cup {"deleted"}
      /\ job' = [job EXCEPT ![t] = NoJob] /\ NoJob.kind \notin Kind
  <2>1. HasJob(t, pc[t], job[t]) /\ job[t] \in Events /\ pc[t] = "publish"
    BY ThreadHas DEF Form, Publish
  <2>. QED  BY <2>1, Kinds, NoJobTyped DEF Form, Typed, CountTyped, ThreadTyped, ValuesTyped, Publish,
            PublishEvent, counts, HasJob, Events
<1>1. CASE heard' = heard
  BY <1>0, <1>1, StillHeard
<1>2. CASE job[t].kind = "button" /\ heard' = [heard EXCEPT ![job[t].num] = @ + 1]
  <2>. DEFINE m == job[t].num
  <2>1. job[t].kind \in Kind /\ m \in 1..events /\ Coming(m)
    BY <1>0, <1>2 DEF HeardInv, Coming
  <2>2. /\ \A u \in Thread \ {t} : job'[u] = job[u]
        /\ job'[t].kind \notin Kind
    BY <1>0
  <2>3. \A n \in Number : Coming(n)' => Coming(n) /\ n # m
    <3>. SUFFICES ASSUME NEW n \in Number, Coming(n)' PROVE Coming(n) /\ n # m
      OBVIOUS
    <3>1. n \in Nat
      BY Kinds DEF Number
    <3>2. CASE n > events
      BY <1>0, <2>1, <3>1, <3>2 DEF Coming
    <3>3. CASE \E u \in Thread : job'[u].kind \in Kind /\ job'[u].num = n
      BY <2>1, <2>2, <3>3 DEF Coming, HeardInv
    <3>. QED  BY <1>0, <3>2, <3>3 DEF Coming
  <2>4. \A n \in Number \ exposed : heard'[n] <= 1 /\ (Coming(n)' => heard'[n] = 0)
    <3>. SUFFICES ASSUME NEW n \in Number \ exposed
                  PROVE  heard'[n] <= 1 /\ (Coming(n)' => heard'[n] = 0)
      OBVIOUS
    <3>. HIDE DEF m
    <3>1. heard'[n] = IF n = m THEN heard[n] + 1 ELSE heard[n]
      BY <1>0, <1>2 DEF m
    <3>2. heard[n] <= 1 /\ (Coming(n) => heard[n] = 0) /\ heard[n] \in Nat
      BY <1>0 DEF HeardInv
    <3>. QED  BY <2>1, <2>3, <3>1, <3>2
  <2>5. \A u \in Thread : job'[u].kind \in Kind => job'[u].num \in 1..events'
    BY <1>0, <2>2 DEF HeardInv
  <2>6. \A u, w \in Thread :
         job'[u].kind \in Kind /\ job'[w].kind \in Kind /\ job'[u].num = job'[w].num => u = w
    BY <2>2 DEF HeardInv
  <2>. QED  BY <1>0, <2>4, <2>5, <2>6 DEF HeardInv
<1>. QED  BY <1>1, <1>2, PublishHears DEF Publish

LEMMA ReplayHeard ==
    ASSUME Form, Form', SilentInv, HeardInv, NEW t \in Thread, ReplayOne(t)
    PROVE  HeardInv'
<1>1. PICK d \in InGroup(t) : PublishEvent(Head(todo[t][d]), group[t])
  BY DEF ReplayOne
<1>2. /\ UNCHANGED <<job, events, exposed>> /\ pc[t] = "replay"
      /\ events \in Nat /\ heard \in [Number -> Nat]
  BY Kinds DEF ReplayOne, PublishEvent, counts, Form, Typed, CountTyped, ValuesTyped
<1>3. CASE heard' = heard
  BY <1>2, <1>3, StillHeard
<1>4. CASE ~replaying /\ heard' = [heard EXCEPT ![Head(todo[t][d]).num] = @ + 1]
  <2>1. 1 \in DOMAIN todo[t][d] /\ Head(todo[t][d]) = todo[t][d][1]
    <3>1. todo[t][d] \in Seq(Replayed) /\ todo[t][d] # <<>>
      BY <1>1, ThreadHas DEF InGroup, Left, Form
    <3>. QED  BY <3>1, AnySeq, Rest
  <2>2. Head(todo[t][d]).num \in Begun(t)
    BY <1>1, <2>1 DEF Begun
  <2>3. Begun(t) \subseteq exposed
    BY <1>2, <1>4 DEF SilentInv, Replaying
  <2>4. \A n \in Number \ exposed : heard'[n] = heard[n]
    BY <1>2, <1>4, <2>2, <2>3
  <2>5. \A n \in Number : Coming(n)' <=> Coming(n)
    BY <1>2 DEF Coming
  <2>. QED  BY <1>2, <2>4, <2>5 DEF HeardInv
<1>. QED  BY <1>1, <1>3, <1>4, PublishHears

LEMMA HeardKept == Form /\ Form' /\ SilentInv /\ HeardInv /\ [Next]_vars => HeardInv'
<1>. SUFFICES ASSUME Form, Form', SilentInv, HeardInv, [Next]_vars PROVE HeardInv'
  OBVIOUS
<1>0. events \in Nat /\ DOMAIN job = Thread /\ Mqtt \in Thread /\ Conn \subseteq Thread
      /\ NoJob.kind \notin Kind /\ "deleted" \notin Kind
  BY Kinds, NoJobTyped DEF Form, Typed, CountTyped, ThreadTyped
<1>1. ASSUME NEW t \in Conn, NEW p \in Peer, NEW d, NEW k, Post(t, p, d, k) PROVE HeardInv'
  BY <1>1, PostHeard
<1>2. ASSUME NEW t \in Conn, Rename(t) PROVE HeardInv'
  BY <1>0, <1>2, StillHeard DEF Rename, counts
<1>3. ASSUME NEW t \in Conn, Base(t) PROVE HeardInv'
  <2>1. job' = job \/ job' = [job EXCEPT ![t] = NoJob]
    BY <1>3 DEF Base
  <2>. QED  BY <1>0, <1>3, <2>1, StillHeard DEF Base, counts, past
<1>4. ASSUME NEW t \in Conn, Update(t) PROVE HeardInv'
  BY <1>0, <1>4, StillHeard DEF Update, counts, broker
<1>5. ASSUME NEW t \in Thread, GroupStart(t) \/ ReplayEnd(t) \/ Save(t) PROVE HeardInv'
  <2>1. heard' = heard /\ exposed \subseteq exposed' /\ events' = events /\ job' = job
    BY <1>5 DEF GroupStart, ReplayEnd, Save, counts, broker, past
  <2>. QED  BY <1>0, <2>1, StillHeard
<1>6. ASSUME NEW d \in Device, Forget(d) PROVE HeardInv'
  <2>1. job' = [job EXCEPT ![Mqtt] = Event(None, None, d, "deleted", 0)]
        /\ Event(None, None, d, "deleted", 0).kind = "deleted"
    BY <1>6 DEF Forget, Event
  <2>2. heard' = heard /\ exposed' = exposed /\ events' = events
    BY <1>6 DEF Forget, counts, broker
  <2>. QED  BY <1>0, <2>1, <2>2, StillHeard
<1>7. ASSUME NEW d \in Device, Choose(d) PROVE HeardInv'
  BY <1>0, <1>7, StillHeard DEF Choose, past, thread
<1>8. ASSUME Snapshot \/ Assign \/ Drop \/ Reconnect \/ UNCHANGED vars PROVE HeardInv'
  <2>1. heard' = heard /\ exposed' = exposed /\ events' = events /\ job' = job
    BY <1>8 DEF Snapshot, Assign, Drop, Reconnect, vars, counts, broker, past, thread
  <2>. QED  BY <1>0, <2>1, StillHeard
<1>9. ASSUME Restart PROVE HeardInv'
  BY <1>0, <1>9, StillHeard DEF Restart, broker
<1>. QED  BY <1>1, <1>2, <1>3, <1>4, <1>5, <1>6, <1>7, <1>8, <1>9, ReplayHeard, PublishHeard DEF Next

LEMMA InitHeard == Init => SilentInv /\ HeardInv
<1>. SUFFICES ASSUME Init PROVE SilentInv /\ HeardInv
  OBVIOUS
<1>1. SilentInv
  BY DEF Init, SilentInv, Replaying
<1>2. \A t \in Thread : job[t].kind \notin Kind
  BY NoJobTyped, Kinds DEF Init
<1>3. \A n \in Number : heard[n] = 0
  BY DEF Init
<1>. QED  BY <1>1, <1>2, <1>3 DEF HeardInv

Heard == Form /\ SilentInv /\ HeardInv

LEMMA HeardNext == Heard /\ [Next]_vars => Heard'
  BY NextForm, SilentKept, HeardKept DEF Heard

LEMMA HeardAlways == Spec => []Heard
<1>1. Init => Heard
  BY InitForm, InitHeard DEF Heard
<1>. QED  BY <1>1, HeardNext, PTL DEF Spec

\* No press is heard again from the stored history, whatever replays and presses overlap,
\* unless a replay had it before it as another one ended and took the flag down
\* (MqttBridge.publish, announce_known).
THEOREM NoneHeardAgain == Spec => []HeardOnce
<1>1. Heard => HeardOnce
  BY DEF Heard, HeardInv, HeardOnce
<1>. QED  BY <1>1, HeardAlways, PTL

\* A press that a thread publishes while no replay runs, and the broker is there, is heard
\* (MqttBridge.publish leaves it out only with the flag up, announce_known).
THEOREM EveryPressHeard == Spec => PressIsHeard
<1>. DEFINE Step == \A t \in Conn : pc[t] = "publish" /\ job[t].kind = "button" /\ connected
                                    /\ pc'[t] = "idle" /\ starts' = starts /\ Replaying = {}
                       => heard'[job[t].num] = heard[job[t].num] + 1
<1>1. ASSUME Heard, [Next]_vars PROVE Step
  <2>. SUFFICES ASSUME NEW t \in Conn, pc[t] = "publish", job[t].kind = "button", connected,
                       pc'[t] = "idle", starts' = starts, Replaying = {}
                PROVE  heard'[job[t].num] = heard[job[t].num] + 1
    OBVIOUS
  <2>0. /\ t \in Thread /\ Conn \subseteq Thread /\ Mqtt \in Thread
        /\ pc \in [Thread -> Steps] /\ events \in Nat /\ events <= MaxEvents
        /\ heard \in [Number -> Nat] /\ starts \in Nat
        /\ HasJob(t, pc[t], job[t]) /\ job[t] \in Events
    BY <1>1, Kinds, ThreadHas, DeviceRegistryAssumption
       DEF Heard, Form, Typed, ThreadTyped, CountTyped, ValuesTyped
  <2>1. Publish(t)
    <3>1. ASSUME NEW u \in Thread, NEW s, pc[u] # "publish" \/ s # "idle", pc' = [pc EXCEPT ![u] = s] PROVE FALSE
      BY <2>0, <3>1
    <3>2. ASSUME NEW u \in Conn, Rename(u) \/ Base(u) \/ Update(u) PROVE FALSE
      <4>1. pc[u] # "publish" /\ \E s : pc' = [pc EXCEPT ![u] = s]
        BY <3>2 DEF Rename, Base, Update, Retire, Goto
      <4>. QED  BY <2>0, <3>1, <4>1
    <3>3. ASSUME NEW u \in Thread, GroupStart(u) \/ ReplayEnd(u) PROVE FALSE
      <4>1. pc[u] # "publish" /\ \E s : pc' = [pc EXCEPT ![u] = s]
        BY <3>3 DEF GroupStart, ReplayEnd, Goto
      <4>. QED  BY <3>1, <4>1
    <3>4. ASSUME NEW u \in Thread, ReplayOne(u) PROVE FALSE
      BY <3>4 DEF ReplayOne
    <3>5. ASSUME NEW u \in Thread, Save(u) PROVE FALSE
      BY <3>1, <3>5 DEF Save, Goto
    <3>6. ASSUME NEW u \in Thread, Publish(u) PROVE u = t
      BY <2>0, <3>6 DEF Publish, Goto
    <3>7. ASSUME NEW d \in Device, Forget(d) \/ Choose(d) PROVE FALSE
      BY <2>0, <3>7 DEF Forget, Choose, thread, Goto
    <3>8. ASSUME NEW u \in Conn, NEW p, NEW d, NEW k, Post(u, p, d, k) PROVE FALSE
      BY <2>0, <3>1, <3>8 DEF Post, Goto
    <3>9. ASSUME Snapshot \/ Assign \/ Drop \/ Reconnect \/ UNCHANGED vars PROVE FALSE
      BY <2>0, <3>9, Kinds DEF Snapshot, Assign, Drop, Reconnect, vars, thread, Goto
    <3>10. ASSUME Restart PROVE FALSE
      BY <2>0, <3>10 DEF Restart
    <3>. QED  BY <1>1, <2>0, <3>2, <3>3, <3>4, <3>5, <3>6, <3>7, <3>8, <3>9, <3>10 DEF Next
  <2>2. ~replaying
    BY <1>1 DEF Heard, SilentInv
  <2>3. heard' = [heard EXCEPT ![job[t].num] = @ + 1]
    BY <2>1, <2>2 DEF Publish, PublishEvent, PublishValue
  <2>4. job[t].num \in Number
    BY <1>1, <2>0 DEF HasJob, Heard, HeardInv, Events
  <2>. QED  BY <2>0, <2>3, <2>4
<1>2. Heard /\ [Next]_vars => [Step]_vars
  BY <1>1
<1>. QED  BY <1>2, HeardAlways, PTL DEF Spec, PressIsHeard

-----------------------------------------------------------------------------
(* What dictionaries and replays hold *)

EntriesOf(s) == {s[i] : i \in DOMAIN s}

LEMMA NoEntries ==
    ASSUME NEW s, IsSeq(s)
    PROVE  s = <<>> <=> EntriesOf(s) = {}
  BY DEF IsSeq, EntriesOf

LEMMA EntriesOfRest ==
    ASSUME NEW s, IsSeq(s), s # <<>>
    PROVE  EntriesOf(s) = {Head(s)} \cup EntriesOf(Tail(s)) /\ Head(s) \in EntriesOf(s)
<1>. DEFINE S == {s[i] : i \in DOMAIN s}
<1>1. s \in Seq(S)
  BY DEF IsSeq
<1>. HIDE DEF S
<1>2. /\ Len(s) \in Nat \ {0} /\ DOMAIN s = 1..Len(s) /\ Head(s) = s[1]
      /\ DOMAIN Tail(s) = 1..Len(s) - 1 /\ \A i \in 1..Len(s) - 1 : Tail(s)[i] = s[i + 1]
  BY <1>1
<1>3. \A i \in DOMAIN s : i = 1 \/ (i - 1 \in DOMAIN Tail(s) /\ Tail(s)[i - 1] = s[i])
  <2>. SUFFICES ASSUME NEW i \in DOMAIN s, i # 1
                PROVE  i - 1 \in DOMAIN Tail(s) /\ Tail(s)[i - 1] = s[i]
    OBVIOUS
  <2>1. i - 1 \in 1..Len(s) - 1 /\ (i - 1) + 1 = i
    BY <1>2
  <2>. QED  BY <1>2, <2>1
<1>4. \A i \in DOMAIN Tail(s) : i + 1 \in DOMAIN s /\ Tail(s)[i] = s[i + 1]
  BY Rest
<1>5. 1 \in DOMAIN s /\ Head(s) = s[1]
  BY <1>2
<1>6. EntriesOf(s) \subseteq {Head(s)} \cup EntriesOf(Tail(s))
  BY <1>3, <1>5 DEF EntriesOf
<1>7. {Head(s)} \cup EntriesOf(Tail(s)) \subseteq EntriesOf(s)
  BY <1>4, <1>5 DEF EntriesOf
<1>. QED  BY <1>6, <1>7

\* A known sink has the new event in place of the one it had.
LEMMA EntriesOfPut ==
    ASSUME NEW s, Dict(s), NEW k \in Kind, NEW n \in Number
    PROVE  EntriesOf(Put(s, k, n))
             = {e \in EntriesOf(s) : Sink[e.kind] # Sink[k]} \cup {[kind |-> k, num |-> n]}
<1>. DEFINE e == [kind |-> k, num |-> n]
<1>1. s \in Seq(Entries) /\ DOMAIN s = 1..Len(s) /\ Len(s) \in Nat
  BY DictForm
<1>2. CASE \E i \in DOMAIN s : Sink[s[i].kind] = Sink[k]
  <2>1. Put(s, k, n) = [i \in DOMAIN s |-> IF Sink[s[i].kind] = Sink[k] THEN e ELSE s[i]]
    BY <1>2 DEF Put
  <2>. HIDE DEF e
  <2>2. \A i \in DOMAIN s : Put(s, k, n)[i] = IF Sink[s[i].kind] = Sink[k] THEN e ELSE s[i]
    BY <2>1
  <2>3. DOMAIN Put(s, k, n) = DOMAIN s
    BY <2>1
  <2>. QED  BY <1>2, <2>2, <2>3 DEF EntriesOf, e
<1>3. CASE ~\E i \in DOMAIN s : Sink[s[i].kind] = Sink[k]
  <2>1. Put(s, k, n) = Append(s, e)
    BY <1>3 DEF Put
  <2>2. /\ DOMAIN Append(s, e) = 1..Len(s) + 1
        /\ Append(s, e)[Len(s) + 1] = e /\ \A i \in 1..Len(s) : Append(s, e)[i] = s[i]
    <3>1. e \in Entries
      BY DEF Entries
    <3>. HIDE DEF e
    <3>. QED  BY <1>1, <3>1
  <2>3. 1..Len(s) + 1 = DOMAIN s \cup {Len(s) + 1}
    BY <1>1
  <2>. HIDE DEF e
  <2>4. EntriesOf(Append(s, e)) = EntriesOf(s) \cup {e}
    <3>1. ASSUME NEW x \in EntriesOf(Append(s, e)) PROVE x \in EntriesOf(s) \cup {e}
      BY <1>1, <2>2, <2>3 DEF EntriesOf
    <3>2. EntriesOf(s) \subseteq EntriesOf(Append(s, e)) /\ e \in EntriesOf(Append(s, e))
      BY <1>1, <2>2, <2>3 DEF EntriesOf
    <3>. QED  BY <3>1, <3>2
  <2>5. \A x \in EntriesOf(s) : Sink[x.kind] # Sink[k]
    BY <1>3 DEF EntriesOf
  <2>. QED  BY <2>1, <2>4, <2>5 DEF e
<1>. QED  BY <1>2, <1>3

\* A save leaves nothing out and makes nothing up.
LEMMA EntriesOfSorted ==
    ASSUME NEW s, Dict(s)
    PROVE  EntriesOf(Sorted(s)) = EntriesOf(s)
<1>1. IsSeq(s) /\ \A i \in DOMAIN s : s[i].kind \in DOMAIN Sink
  BY DictForm, AnySeq, Kinds DEF Entries
<1>. DEFINE Letter(i) == Alphabet[Sink[s[i].kind]]
            Place(i)  == Cardinality({j \in DOMAIN s : Letter(j) < Letter(i)
                                                       \/ (Letter(j) = Letter(i) /\ j <= i)})
            at(n)     == CHOOSE i \in DOMAIN s : Place(i) = n
<1>2. \A i \in DOMAIN s : /\ \E j \in DOMAIN s : Place(j) = i
                          /\ Place(i) \in DOMAIN s
                          /\ \A j \in DOMAIN s : Place(i) = Place(j) => i = j
  BY <1>1, SortedPlaces
<1>3. Sorted(s) = [n \in DOMAIN s |-> s[at(n)]]
  BY DEF Sorted
<1>. HIDE DEF Place
<1>4. \A n \in DOMAIN s : at(n) \in DOMAIN s /\ Place(at(n)) = n
  BY <1>2
<1>. HIDE DEF at
<1>5. \A i \in DOMAIN s : Place(i) \in DOMAIN s /\ at(Place(i)) = i
  BY <1>2, <1>4
<1>6. DOMAIN Sorted(s) = DOMAIN s /\ \A n \in DOMAIN s : Sorted(s)[n] = s[at(n)]
  BY <1>3
<1>. QED  BY <1>4, <1>5, <1>6 DEF EntriesOf

\* A replay has the entries of the devices of its bases.
LEMMA EntriesOfStored ==
    ASSUME NEW P, NEW names, NEW d \in Device
    PROVE  EntriesOf(Stored(P, names)[d])
             = IF owner[d] \in P
                 THEN {Event(None, names[owner[d]], d, e.kind, e.num) : e \in EntriesOf(stored[d])}
                 ELSE {}
<1>1. CASE owner[d] \in P
  <2>1. Stored(P, names)[d] = [i \in DOMAIN stored[d] |->
              Event(None, names[owner[d]], d, stored[d][i].kind, stored[d][i].num)]
    BY <1>1 DEF Stored
  <2>2. EntriesOf(Stored(P, names)[d])
          = {Event(None, names[owner[d]], d, stored[d][i].kind, stored[d][i].num) : i \in DOMAIN stored[d]}
    BY <2>1 DEF EntriesOf
  <2>. QED  BY <1>1, <2>2 DEF EntriesOf
<1>2. CASE owner[d] \notin P
  <2>1. Stored(P, names)[d] = <<>>
    BY <1>2 DEF Stored
  <2>. QED  BY <1>2, <2>1 DEF EntriesOf
<1>. QED  BY <1>1, <1>2

-----------------------------------------------------------------------------
(* What the file and the replays hold of a device *)

\* A thread has a replay at hand only while it is in one, and plays of a device what is of
\* that device; the file has of a device what the state has.
TodoInv == \A t \in Thread : /\ pc[t] \notin {"group", "replay"} => Left(t) = {}
                             /\ \A d \in Device : \A e \in EntriesOf(todo[t][d]) : e.dev = d
SavedInv == \A d \in Device : EntriesOf(disk.stored[d]) = EntriesOf(stored[d])

LEMMA SavedFile ==
    ASSUME Form', SaveState(stored')
    PROVE  SavedInv'
<1>1. \A d \in Device : Dict(stored'[d])
  BY DictsOf DEF Form, Typed, KnownTyped
<1>2. disk' = [disk EXCEPT !.stored = [d \in Device |-> Sorted(stored'[d])]]
  BY DEF SaveState
<1>3. DOMAIN disk' = {"stored", "owner", "keyOf"}
  BY DEF Form, Typed, DiskTyped
<1>4. disk'.stored = [d \in Device |-> Sorted(stored'[d])]
  BY <1>2, <1>3
<1>. QED  BY <1>1, <1>4, EntriesOfSorted DEF SavedInv

LEMMA SavedKept == Form /\ Form' /\ SavedInv /\ [Next]_vars => SavedInv'
<1>. SUFFICES ASSUME Form, Form', SavedInv, [Next]_vars PROVE SavedInv'
  OBVIOUS
<1>0. DOMAIN disk = {"stored", "owner", "keyOf"}
  BY DEF Form, Typed, DiskTyped
<1>1. ASSUME disk'.stored = disk.stored, stored' = stored PROVE SavedInv'
  BY <1>1 DEF SavedInv
<1>2. ASSUME NEW o, NEW k, SaveCommandState(o, k) PROVE disk'.stored = disk.stored
  BY <1>0, <1>2 DEF SaveCommandState
<1>3. ASSUME NEW t \in Conn, Update(t) PROVE SavedInv'
  BY <1>3, SavedFile DEF Update
<1>4. ASSUME NEW d \in Device, Forget(d) PROVE SavedInv'
  BY <1>4, SavedFile DEF Forget
<1>5. ASSUME NEW t \in Conn, NEW p \in Peer, NEW d, NEW k, Post(t, p, d, k) PROVE SavedInv'
  BY <1>1, <1>5 DEF Post, mem
<1>6. ASSUME NEW t \in Conn, Rename(t) PROVE SavedInv'
  <2>1. stored' = stored /\ (disk' = disk \/ SaveCommandState(owner, keyOf'))
    BY <1>6 DEF Rename
  <2>. QED  BY <1>1, <1>2, <2>1
<1>7. ASSUME NEW t \in Conn, Base(t) PROVE SavedInv'
  BY <1>1, <1>7 DEF Base, mem
<1>8. ASSUME NEW t \in Thread, GroupStart(t) \/ ReplayOne(t) \/ ReplayEnd(t) \/ Publish(t) PROVE SavedInv'
  BY <1>1, <1>8 DEF GroupStart, ReplayOne, ReplayEnd, Publish, mem
<1>9. ASSUME NEW t \in Thread, Save(t) PROVE SavedInv'
  BY <1>1, <1>2, <1>9 DEF Save, mem
<1>10. ASSUME NEW d \in Device, Choose(d) PROVE SavedInv'
  BY <1>1, <1>10 DEF Choose, mem
<1>11. ASSUME Snapshot \/ Assign \/ Drop \/ Reconnect \/ UNCHANGED vars PROVE SavedInv'
  BY <1>1, <1>11 DEF Snapshot, Assign, Drop, Reconnect, vars, mem
<1>12. ASSUME Restart PROVE SavedInv'
  BY <1>12 DEF Restart, SavedInv
<1>. QED  BY <1>3, <1>4, <1>5, <1>6, <1>7, <1>8, <1>9, <1>10, <1>11, <1>12 DEF Next

\* What a thread goes on with is of the form.
LEMMA TodoGoes ==
    ASSUME TodoInv, NEW t \in Thread,
           \A u \in Thread \ {t} : pc'[u] = pc[u] /\ todo'[u] = todo[u],
           pc'[t] \notin {"group", "replay"} => Left(t)' = {},
           \A d \in Device : \A e \in EntriesOf(todo'[t][d]) : e.dev = d
    PROVE  TodoInv'
<1>1. \A u \in Thread \ {t} : Left(u)' = Left(u)
  BY DEF Left
<1>. QED  BY <1>1 DEF TodoInv

LEMMA TodoStays ==
    ASSUME TodoInv, NEW t \in Thread, \A u \in Thread \ {t} : pc'[u] = pc[u],
           pc[t] \notin {"group", "replay"} \/ pc'[t] \in {"group", "replay"} \/ Left(t) = {}, todo' = todo
    PROVE  TodoInv'
<1>1. Left(t)' = Left(t)
  BY DEF Left
<1>2. pc'[t] \notin {"group", "replay"} => Left(t)' = {}
  BY <1>1 DEF TodoInv
<1>. QED  BY <1>2, TodoGoes DEF TodoInv

LEMMA TodoLoaded ==
    ASSUME Form, TodoInv, NEW t \in Thread, NEW P, NEW names,
           pc' = [pc EXCEPT ![t] = "group"], todo' = [todo EXCEPT ![t] = Stored(P, names)]
    PROVE  TodoInv'
<1>1. /\ \A u \in Thread \ {t} : pc'[u] = pc[u] /\ todo'[u] = todo[u]
      /\ pc'[t] = "group" /\ todo'[t] = Stored(P, names)
  BY DEF Form, Typed, ThreadTyped
<1>2. \A d \in Device : \A e \in EntriesOf(Stored(P, names)[d]) : e.dev = d
  <2>. SUFFICES ASSUME NEW d \in Device, NEW e \in EntriesOf(Stored(P, names)[d]) PROVE e.dev = d
    OBVIOUS
  <2>1. \E x \in EntriesOf(stored[d]) : e = Event(None, names[owner[d]], d, x.kind, x.num)
    <3>1. CASE owner[d] \in P
      <4>1. e \in {Event(None, names[owner[d]], d, x.kind, x.num) : x \in EntriesOf(stored[d])}
        BY <3>1, EntriesOfStored
      <4>. QED  BY <4>1
    <3>2. CASE owner[d] \notin P
      <4>1. e \in {}
        BY <3>2, EntriesOfStored
      <4>. QED  BY <4>1
    <3>. QED  BY <3>1, <3>2
  <2>. QED  BY <2>1 DEF Event
<1>. QED  BY <1>1, <1>2, TodoGoes

LEMMA TodoKept == Form /\ TodoInv /\ [Next]_vars => TodoInv'
<1>. SUFFICES ASSUME Form, TodoInv, [Next]_vars PROVE TodoInv'
  OBVIOUS
<1>0. pc \in [Thread -> Steps] /\ DOMAIN todo = Thread /\ Mqtt \in Thread /\ Conn \subseteq Thread
      /\ \A t \in Thread : DOMAIN todo[t] = Device
  BY Kinds DEF Form, Typed, ThreadTyped
<1>1. ASSUME NEW t \in Conn, NEW p \in Peer, NEW d, NEW k, Post(t, p, d, k) PROVE TodoInv'
  BY <1>0, <1>1, TodoStays DEF Post, Goto
<1>2. ASSUME NEW t \in Conn, Rename(t) PROVE TodoInv'
  <2>1. pc[t] = "base"
    BY <1>2 DEF Rename
  <2>2. CASE pc' = [pc EXCEPT ![t] = "known"] /\ todo' = todo
    BY <1>0, <2>1, <2>2, TodoStays
  <2>3. CASE \E names : pc' = [pc EXCEPT ![t] = "group"] /\ todo' = [todo EXCEPT ![t] = Stored(Peer, names)]
    BY <1>0, <2>3, TodoLoaded
  <2>. QED  BY <1>2, <2>2, <2>3 DEF Rename, Retire, Goto
<1>3. ASSUME NEW t \in Conn, Base(t) PROVE TodoInv'
  <2>1. pc[t] = "known"
    BY <1>3 DEF Base
  <2>2. CASE (\E s : pc' = [pc EXCEPT ![t] = s]) /\ todo' = todo
    BY <1>0, <2>1, <2>2, TodoStays
  <2>3. CASE \E P, names : pc' = [pc EXCEPT ![t] = "group"] /\ todo' = [todo EXCEPT ![t] = Stored(P, names)]
    BY <1>0, <2>3, TodoLoaded
  <2>. QED  BY <1>3, <2>2, <2>3 DEF Base, Goto
<1>4. ASSUME NEW t \in Conn, Update(t) PROVE TodoInv'
  <2>1. pc[t] = "update" /\ todo' = todo /\ \E s : pc' = [pc EXCEPT ![t] = s]
    BY <1>4 DEF Update, Goto
  <2>. QED  BY <1>0, <2>1, TodoStays
<1>5. ASSUME NEW t \in Thread, GroupStart(t) PROVE TodoInv'
  <2>1. CASE Left(t) = {} /\ todo' = todo /\ \E s : pc' = [pc EXCEPT ![t] = s]
    BY <1>0, <2>1, TodoStays
  <2>2. CASE pc' = [pc EXCEPT ![t] = "replay"] /\ todo' = todo
    BY <1>0, <2>2, TodoStays
  <2>3. CASE pc' = [pc EXCEPT ![t] = "idle"] /\ todo' = [todo EXCEPT ![t] = NoTodo]
    <3>1. \A d \in Device : todo'[t][d] = <<>>
      BY <1>0, <2>3 DEF NoTodo
    <3>2. Left(t)' = {} /\ \A d \in Device : EntriesOf(todo'[t][d]) = {}
      BY <3>1 DEF Left, EntriesOf
    <3>. QED  BY <1>0, <2>3, <3>2, TodoGoes
  <2>. QED  BY <1>5, <2>1, <2>2, <2>3 DEF GroupStart, Goto
<1>6. ASSUME NEW t \in Thread, ReplayOne(t) PROVE TodoInv'
  <2>1. PICK d \in InGroup(t) : todo' = [todo EXCEPT ![t][d] = Tail(@)]
    BY <1>6 DEF ReplayOne
  <2>2. d \in Device /\ todo[t][d] # <<>> /\ IsSeq(todo[t][d])
    BY <2>1, ThreadHas, AnySeq DEF InGroup, Left, Form
  <2>3. /\ \A u \in Thread \ {t} : todo'[u] = todo[u]
        /\ \A x \in Device \ {d} : todo'[t][x] = todo[t][x]
        /\ todo'[t][d] = Tail(todo[t][d])
    BY <1>0, <2>1, <2>2
  <2>4. EntriesOf(todo'[t][d]) \subseteq EntriesOf(todo[t][d])
    BY <2>2, <2>3, EntriesOfRest
  <2>5. \A x \in Device : \A e \in EntriesOf(todo'[t][x]) : e.dev = x
    BY <2>3, <2>4 DEF TodoInv
  <2>. QED  BY <1>6, <2>3, <2>5, TodoGoes DEF ReplayOne
<1>7. ASSUME NEW t \in Thread, ReplayEnd(t) PROVE TodoInv'
  BY <1>0, <1>7, TodoStays DEF ReplayEnd, Goto
<1>8. ASSUME NEW t \in Thread, Save(t) \/ Publish(t) PROVE TodoInv'
  <2>1. pc[t] \in {"save", "publish"} /\ todo' = todo /\ \E s : pc' = [pc EXCEPT ![t] = s]
    BY <1>8 DEF Save, Publish, Goto
  <2>. QED  BY <1>0, <2>1, TodoStays
<1>9. ASSUME NEW d \in Device, Forget(d) PROVE TodoInv'
  <2>1. pc[Mqtt] = "idle" /\ todo' = todo /\ \E s : pc' = [pc EXCEPT ![Mqtt] = s]
    BY <1>9 DEF Forget, Goto
  <2>. QED  BY <1>0, <2>1, TodoStays
<1>10. ASSUME NEW d \in Device, Choose(d) PROVE TodoInv'
  BY <1>10 DEF Choose, thread, TodoInv, Left
<1>11. ASSUME Snapshot PROVE TodoInv'
  BY <1>0, <1>11, TodoLoaded DEF Snapshot, Goto
<1>12. ASSUME Reconnect PROVE TodoInv'
  <2>1. pc[Mqtt] \notin {"group", "replay"} /\ todo' = todo /\ pc' = [pc EXCEPT ![Mqtt] = "connect"]
    BY <1>12 DEF Reconnect, Idle, Goto
  <2>. QED  BY <1>0, <2>1, TodoStays
<1>13. ASSUME Assign \/ Drop \/ UNCHANGED vars PROVE TodoInv'
  BY <1>13 DEF Assign, Drop, vars, thread, TodoInv, Left
<1>14. ASSUME Restart PROVE TodoInv'
  <2>1. \A t \in Thread, d \in Device : todo'[t][d] = <<>>
    BY <1>14 DEF Restart, NoTodo
  <2>. QED  BY <2>1 DEF TodoInv, Left, EntriesOf
<1>. QED  BY <1>1, <1>2, <1>3, <1>4, <1>5, <1>6, <1>7, <1>8, <1>9, <1>10, <1>11, <1>12, <1>13,
          <1>14 DEF Next

-----------------------------------------------------------------------------
(* A device: what is known, under way and shown of it *)

\* The events of a device that a thread is still to publish.
Due(t, d) ==
    (IF pc[t] \in {"save", "publish"} /\ job[t].dev = d /\ job[t].kind # "deleted" THEN {job[t]} ELSE {})
        \cup EntriesOf(todo[t][d])
Busy(t, d) == Due(t, d) # {} \/ Going(t, d)

Carried(es, x) == \E e \in es : x \in Carries[e.kind]
Behind(d, x)   == value[d][x] < latest[d][x]
\* The events that a topic of one sink shows are its last one.
Last(es, d) == \A e \in es : \A x \in OwnTopic : x \in Carries[e.kind] => e.num = latest[d][x]
Clean(d) == disc[d] = NoDoc /\ \A x \in Topic \ {"pressure"} : value[d][x] = 0

\* A known device has a base that replays it.
OwnerInv(d) == d \in Known /\ owner[d] = None => d \in missed
\* A device that is not known is about to be removed, or was.
GoneInv(d) ==
    d \notin Known /\ d \notin crossed /\ d \notin missed =>
      \/ \E t \in Thread : Going(t, d) /\ \A u \in Thread \ {t} : ~Busy(u, d)
      \/ Clean(d) /\ d \notin announced /\ \A t \in Thread : ~Busy(t, d)
\* A device that was announced has the document of this run, or is about to be removed.
DocInv(d) ==
    d \in announced => d \in missed \/ disc[d].version = starts \/ \E t \in Thread : Going(t, d)
\* A known device was announced, or is about to be.
AnnouncedInv(d) ==
    d \in Known /\ d \notin missed =>
      d \in announced \/ (\E t \in Thread : Busy(t, d)) \/ pc[Mqtt] = "connect"
\* A device that is known again while it is being removed crossed its removal.
BackInv(d) == d \in Known /\ (\E t \in Thread : Going(t, d)) => d \in crossed
LatestInv(d) == \A x \in Topic : latest[d][x] <= events
\* What is known of a device, and what is under way of it, is the last of its topics.
StoredInv(d) == Last(EntriesOf(stored[d]), d)
DueInv(d) == d \notin crossed => \A t \in Thread : Last(Due(t, d), d)
\* What is not shown yet is known, and is under way.
HeldInv(d) ==
    d \in Known /\ d \notin crossed =>
      \A x \in OwnTopic : Behind(d, x) => Carried(EntriesOf(stored[d]), x)
ShownInv(d) ==
    d \in Known /\ d \notin crossed /\ d \notin missed =>
      \A x \in OwnTopic : Behind(d, x) =>
        (\E t \in Thread : Carried(Due(t, d), x)) \/ pc[Mqtt] = "connect" \/ ~connected

DeviceInv(d) ==
    /\ OwnerInv(d) /\ GoneInv(d) /\ DocInv(d) /\ AnnouncedInv(d)
    /\ BackInv(d) /\ LatestInv(d) /\ StoredInv(d) /\ DueInv(d) /\ HeldInv(d) /\ ShownInv(d)

LEMMA Numbers ==
    ASSUME Form, NEW d \in Device
    PROVE  /\ \A x \in Topic : value[d][x] \in Nat /\ latest[d][x] \in Nat /\ latest[d][x] \in 0..MaxEvents
           /\ value[d] \in [Topic -> 0..MaxEvents] /\ latest[d] \in [Topic -> 0..MaxEvents]
           /\ events \in Nat /\ OwnTopic \subseteq Topic
<1>1. value[d] \in [Topic -> 0..MaxEvents] /\ latest[d] \in [Topic -> 0..MaxEvents]
  BY DEF Form, Typed, ValuesTyped
<1>. QED  BY <1>1, Kinds DEF Form, Typed, CountTyped, OwnTopic

\* What a step leaves alone of a device.
KnownSame(d)  == stored'[d] = stored[d] /\ owner'[d] = owner[d] /\ latest'[d] = latest[d]
BrokerSame(d) == /\ disc'[d] = disc[d] /\ value'[d] = value[d] /\ starts' = starts
                 /\ d \in announced' <=> d \in announced
PastSame(d)   == (d \in crossed' <=> d \in crossed) /\ (d \in missed' <=> d \in missed)
HandSame(t, d) == Due(t, d)' = Due(t, d) /\ (Going(t, d)' <=> Going(t, d))

\* A step that has nothing to do with the device.
LEMMA Aside ==
    ASSUME Form, Form', NEW d \in Device, DeviceInv(d),
           KnownSame(d), BrokerSame(d), PastSame(d), \A t \in Thread : HandSame(t, d),
           events <= events', pc[Mqtt] = "connect" => pc'[Mqtt] = "connect",
           connected' => connected \/ pc'[Mqtt] = "connect"
    PROVE  DeviceInv(d)'
<1>1. (d \in Known' <=> d \in Known) /\ (\A x : Behind(d, x)' <=> Behind(d, x))
  BY DEF KnownSame, BrokerSame, Known, Behind
<1>2. \A t \in Thread : (Busy(t, d)' <=> Busy(t, d)) /\ (Going(t, d)' <=> Going(t, d))
  BY DEF HandSame, Busy
<1>3. OwnerInv(d)'
  BY <1>1 DEF DeviceInv, OwnerInv, KnownSame, PastSame
<1>4. GoneInv(d)'
  <2>1. Clean(d)' <=> Clean(d)
    BY DEF Clean, BrokerSame
  <2>. QED  BY <1>1, <1>2, <2>1 DEF DeviceInv, GoneInv, BrokerSame, PastSame
<1>5. DocInv(d)'
  BY <1>2 DEF DeviceInv, DocInv, BrokerSame, PastSame
<1>6. AnnouncedInv(d)'
  BY <1>1, <1>2 DEF DeviceInv, AnnouncedInv, BrokerSame, PastSame
<1>7. BackInv(d)'
  BY <1>1, <1>2 DEF DeviceInv, BackInv, PastSame
<1>8. LatestInv(d)'
  BY Numbers DEF DeviceInv, LatestInv, KnownSame, Form, Typed, CountTyped
<1>9. StoredInv(d)' /\ DueInv(d)'
  BY DEF DeviceInv, StoredInv, DueInv, Last, KnownSame, PastSame, HandSame
<1>10. HeldInv(d)' /\ ShownInv(d)'
  BY <1>1 DEF DeviceInv, HeldInv, ShownInv, KnownSame, PastSame, HandSame
<1>. QED  BY <1>3, <1>4, <1>5, <1>6, <1>7, <1>8, <1>9, <1>10 DEF DeviceInv

\* What the entries of a device and the events of a replay of it have in common.
Mirrors(es, fs) == \A e \in es : \E f \in fs : f.kind = e.kind /\ f.num = e.num

LEMMA Mirrored ==
    ASSUME NEW es, NEW fs, Mirrors(es, fs), NEW d
    PROVE  /\ Last(fs, d) => Last(es, d)
           /\ \A x : Carried(es, x) => Carried(fs, x)
           /\ fs = {} => es = {}
  BY DEF Mirrors, Last, Carried

\* A known device has entries.
LEMMA KnownHas ==
    ASSUME Form, NEW d \in Device
    PROVE  d \in Known <=> EntriesOf(stored[d]) # {}
<1>1. Dict(stored[d])
  BY DictsOf DEF Form, Typed, KnownTyped
<1>2. IsSeq(stored[d])
  BY <1>1, DictForm, AnySeq
<1>. QED  BY <1>2, NoEntries DEF Known

\* A thread goes on to replay what is known of the device, if it is of the bases it replays:
\* on a new connection, or as all are to be announced again, of all of them.
LEMMA Loads ==
    ASSUME Form, Form', NEW d \in Device, DeviceInv(d), NEW t \in Thread,
           KnownSame(d), PastSame(d), disc'[d] = disc[d], value'[d] = value[d], starts' = starts,
           connected' = connected, events' = events,
           \A u \in Thread \ {t} : HandSame(u, d), ~Busy(t, d), ~Going(t, d)',
           Mirrors(Due(t, d)', EntriesOf(stored[d])), d \in announced' => d \in announced,
           \/ /\ d \in announced' <=> d \in announced
              /\ pc[Mqtt] = "connect" => pc'[Mqtt] = "connect"
           \/ owner[d] # None => Mirrors(EntriesOf(stored[d]), Due(t, d)')
    PROVE  DeviceInv(d)'
<1>1. (d \in Known' <=> d \in Known) /\ (\A x : Behind(d, x)' <=> Behind(d, x))
  BY DEF KnownSame, Known, Behind
<1>2. \A u \in Thread : Going(u, d)' <=> Going(u, d)
  BY DEF HandSame, Busy
<1>3. Due(t, d) = {} /\ ~Going(t, d)
  BY DEF Busy
<1>4. OwnerInv(d)'
  BY <1>1 DEF DeviceInv, OwnerInv, KnownSame, PastSame
<1>5. GoneInv(d)'
  <2>1. Clean(d)' <=> Clean(d)
    BY DEF Clean
  <2>2. d \notin Known => ~Busy(t, d)'
    <3>1. d \notin Known => Due(t, d)' = {}
      BY KnownHas, Mirrored
    <3>. QED  BY <3>1 DEF Busy
  <2>3. \A u \in Thread \ {t} : Busy(u, d)' <=> Busy(u, d)
    BY DEF Busy, HandSame
  <2>. QED  BY <1>1, <1>2, <2>1, <2>2, <2>3 DEF DeviceInv, GoneInv, PastSame
<1>6. DocInv(d)'
  BY <1>2 DEF DeviceInv, DocInv, PastSame
<1>7. AnnouncedInv(d)'
  <2>1. \A u \in Thread : Busy(u, d) => Busy(u, d)'
    BY <1>3 DEF Busy, HandSame
  <2>2. CASE owner[d] # None => Mirrors(EntriesOf(stored[d]), Due(t, d)')
    <3>1. d \in Known /\ owner[d] # None => Busy(t, d)'
      <4>1. d \in Known /\ owner[d] # None => Due(t, d)' # {}
        BY <2>2, KnownHas, Mirrored
      <4>. QED  BY <4>1 DEF Busy
    <3>. QED  BY <1>1, <3>1 DEF DeviceInv, OwnerInv, AnnouncedInv, PastSame
  <2>3. CASE /\ d \in announced' <=> d \in announced
             /\ pc[Mqtt] = "connect" => pc'[Mqtt] = "connect"
    BY <1>1, <2>1, <2>3 DEF DeviceInv, AnnouncedInv, PastSame
  <2>. QED  BY <2>2, <2>3
<1>8. BackInv(d)'
  BY <1>1, <1>2 DEF DeviceInv, BackInv, PastSame
<1>9. LatestInv(d)' /\ StoredInv(d)'
  BY DEF DeviceInv, LatestInv, StoredInv, Last, KnownSame
<1>10. DueInv(d)'
  <2>1. Last(Due(t, d)', d)
    BY Mirrored DEF DeviceInv, StoredInv
  <2>2. (Last(Due(t, d), d))'
    BY <2>1 DEF Last, KnownSame
  <2>3. \A u \in Thread \ {t} : d \notin crossed => (Last(Due(u, d), d))'
    BY DEF DeviceInv, DueInv, HandSame, Last, KnownSame
  <2>. QED  BY <2>2, <2>3 DEF DueInv, PastSame
<1>11. HeldInv(d)'
  BY <1>1 DEF DeviceInv, HeldInv, KnownSame, PastSame
<1>12. ShownInv(d)'
  <2>1. \A u \in Thread : \A x : Carried(Due(u, d), x) => Carried(Due(u, d), x)'
    <3>. SUFFICES ASSUME NEW u \in Thread, NEW x, Carried(Due(u, d), x) PROVE Carried(Due(u, d), x)'
      OBVIOUS
    <3>1. u # t
      BY <1>3 DEF Carried
    <3>. QED  BY <3>1 DEF Carried, HandSame
  <2>2. CASE owner[d] # None => Mirrors(EntriesOf(stored[d]), Due(t, d)')
    <3>1. \A x : owner[d] # None /\ Carried(EntriesOf(stored[d]), x) => Carried(Due(t, d), x)'
      <4>. SUFFICES ASSUME NEW x, owner[d] # None, Carried(EntriesOf(stored[d]), x)
                    PROVE  Carried(Due(t, d), x)'
        OBVIOUS
      <4>1. Carried(Due(t, d)', x)
        BY <2>2, Mirrored
      <4>. QED  BY <4>1 DEF Carried
    <3>. QED  BY <1>1, <3>1 DEF DeviceInv, HeldInv, ShownInv, OwnerInv, PastSame
  <2>3. CASE pc[Mqtt] = "connect" => pc'[Mqtt] = "connect"
    BY <1>1, <2>1, <2>3 DEF DeviceInv, ShownInv, PastSame
  <2>. QED  BY <2>2, <2>3
<1>. QED  BY <1>4, <1>5, <1>6, <1>7, <1>8, <1>9, <1>10, <1>11, <1>12 DEF DeviceInv

\* A replay that is cut off as self.mqtt is not there yet.
LEMMA Loses ==
    ASSUME Form, Form', NEW d \in Device, DeviceInv(d), NEW t \in Thread,
           KnownSame(d), BrokerSame(d), d \in crossed' <=> d \in crossed, d \in missed',
           events' = events, \A u \in Thread \ {t} : HandSame(u, d), Due(t, d)' = {},
           Going(t, d)' <=> Going(t, d)
    PROVE  DeviceInv(d)'
<1>1. (d \in Known' <=> d \in Known) /\ (\A x : Behind(d, x)' <=> Behind(d, x))
  BY DEF KnownSame, BrokerSame, Known, Behind
<1>2. OwnerInv(d)' /\ GoneInv(d)' /\ DocInv(d)' /\ AnnouncedInv(d)' /\ ShownInv(d)'
  BY DEF OwnerInv, GoneInv, DocInv, AnnouncedInv, ShownInv
<1>3. BackInv(d)'
  BY <1>1 DEF DeviceInv, BackInv, HandSame
<1>4. LatestInv(d)' /\ StoredInv(d)'
  BY DEF DeviceInv, LatestInv, StoredInv, Last, KnownSame
<1>5. DueInv(d)'
  <2>1. (Last(Due(t, d), d))'
    BY DEF Last
  <2>2. \A u \in Thread \ {t} : d \notin crossed => (Last(Due(u, d), d))'
    BY DEF DeviceInv, DueInv, HandSame, Last, KnownSame
  <2>. QED  BY <2>1, <2>2 DEF DueInv
<1>6. HeldInv(d)'
  BY <1>1 DEF DeviceInv, HeldInv, KnownSame
<1>. QED  BY <1>2, <1>3, <1>4, <1>5, <1>6 DEF DeviceInv

\* A thread publishes an event of the device.
LEMMA Tells ==
    ASSUME Form, Form', NEW d \in Device, DeviceInv(d), NEW t \in Thread, NEW e, NEW b,
           e \in Due(t, d), e.dev = d, e.kind \in Kind, Announce(d, b), PublishValue(e),
           d \in missed' <=> d \in missed \/ (~connected /\ d \notin announced),
           KnownSame(d), d \in crossed' <=> d \in crossed, starts' = starts, connected' = connected,
           events' = events, \A u \in Thread \ {t} : HandSame(u, d),
           Due(t, d)' \subseteq Due(t, d), Due(t, d) \subseteq Due(t, d)' \cup {e},
           ~Going(t, d), ~Going(t, d)', pc[Mqtt] = "connect" => pc'[Mqtt] = "connect"
    PROVE  DeviceInv(d)'
<1>0. /\ disc \in [Device -> [version : 0..MaxFaults + 1, via : Key \cup {None}]]
      /\ value[d] \in [Topic -> 0..MaxEvents] /\ DOMAIN value = Device
  BY Numbers DEF Form, Typed, DocsTyped, ValuesTyped
<1>1. (d \in Known' <=> d \in Known) /\ d \in announced' /\ Busy(t, d)
  BY DEF KnownSame, Known, Announce, Busy
<1>2. \A u \in Thread : Going(u, d)' <=> Going(u, d)
  BY DEF HandSame
<1>3. \A x \in Topic : value'[d][x] = IF connected /\ x \in Carries[e.kind] THEN e.num ELSE value[d][x]
  <2>1. e.kind = "button" => Carries[e.kind] = {}
    BY DEF Carries
  <2>2. CASE e.kind # "button" /\ connected
    <3>1. value' = Shown(e)
      BY <2>2 DEF PublishValue
    <3>. QED  BY <1>0, <2>2, <3>1 DEF Shown
  <2>3. CASE ~(e.kind # "button" /\ connected)
    <3>1. value' = value
      BY <2>3 DEF PublishValue
    <3>. QED  BY <2>1, <2>3, <3>1
  <2>. QED  BY <2>2, <2>3
<1>4. OwnerInv(d)'
  BY <1>1 DEF DeviceInv, OwnerInv, KnownSame
<1>5. GoneInv(d)'
  BY <1>1 DEF DeviceInv, GoneInv
<1>6. DocInv(d)'
  <2>1. CASE d \in announced
    BY <1>2, <2>1 DEF DeviceInv, DocInv, Announce
  <2>2. CASE d \notin announced /\ connected
    <3>1. disc'[d].version = starts
      BY <1>0, <2>2 DEF Announce
    <3>. QED  BY <3>1 DEF DocInv
  <2>3. CASE d \notin announced /\ ~connected
    BY <2>3 DEF DocInv
  <2>. QED  BY <2>1, <2>2, <2>3
<1>7. AnnouncedInv(d)'
  BY <1>1 DEF AnnouncedInv
<1>8. BackInv(d)'
  BY <1>1, <1>2 DEF DeviceInv, BackInv
<1>9. LatestInv(d)' /\ StoredInv(d)'
  BY DEF DeviceInv, LatestInv, StoredInv, Last, KnownSame
<1>10. DueInv(d)'
  BY DEF DeviceInv, DueInv, HandSame, Last, KnownSame
\* What it carries of is not behind any more.
<1>11. \A x \in OwnTopic : d \notin crossed /\ Behind(d, x)' =>
          Behind(d, x) /\ ~(connected /\ x \in Carries[e.kind])
  <2>. SUFFICES ASSUME NEW x \in OwnTopic, d \notin crossed, Behind(d, x)'
                PROVE  Behind(d, x) /\ ~(connected /\ x \in Carries[e.kind])
    OBVIOUS
  <2>1. x \in Topic /\ latest[d][x] \in Nat
    BY Numbers
  <2>2. value'[d][x] < latest[d][x]
    BY DEF Behind, KnownSame
  <2>3. CASE connected /\ x \in Carries[e.kind]
    <3>1. e.num = latest[d][x]
      BY <2>3 DEF DeviceInv, DueInv, Last
    <3>. QED  BY <1>3, <2>1, <2>2, <2>3, <3>1
  <2>4. CASE ~(connected /\ x \in Carries[e.kind])
    BY <1>3, <2>1, <2>2, <2>4 DEF Behind
  <2>. QED  BY <2>3, <2>4
<1>12. HeldInv(d)'
  BY <1>1, <1>11 DEF DeviceInv, HeldInv, KnownSame
<1>13. ShownInv(d)'
  <2>. SUFFICES ASSUME d \in Known, d \notin crossed, d \notin missed, NEW x \in OwnTopic, Behind(d, x)',
                       connected, pc[Mqtt] # "connect"
                PROVE  \E u \in Thread : Carried(Due(u, d), x)'
    BY <1>1 DEF ShownInv
  <2>1. Behind(d, x) /\ x \notin Carries[e.kind]
    BY <1>11
  <2>2. PICK u \in Thread : Carried(Due(u, d), x)
    BY <2>1 DEF DeviceInv, ShownInv
  <2>3. CASE u = t
    BY <2>1, <2>2, <2>3 DEF Carried
  <2>4. CASE u # t
    BY <2>2, <2>4 DEF Carried, HandSame
  <2>. QED  BY <2>3, <2>4
<1>. QED  BY <1>4, <1>5, <1>6, <1>7, <1>8, <1>9, <1>10, <1>12, <1>13 DEF DeviceInv

\* A thread publishes the removal of the device.
LEMMA Removes ==
    ASSUME Form, Form', NEW d \in Device, DeviceInv(d), NEW t \in Thread,
           Going(t, d), RemoveDevice(d), KnownSame(d), d \in crossed' <=> d \in crossed,
           d \in missed' <=> d \in missed \/ ~connected \/ d \in Known,
           starts' = starts, connected' = connected, events' = events,
           \A u \in Thread \ {t} : HandSame(u, d), Due(t, d)' = {}, ~Going(t, d)'
    PROVE  DeviceInv(d)'
<1>0. /\ disc \in [Device -> [version : 0..MaxFaults + 1, via : Key \cup {None}]]
      /\ value[d] \in [Topic -> 0..MaxEvents] /\ DOMAIN value = Device
  BY Numbers DEF Form, Typed, DocsTyped, ValuesTyped
<1>1. (d \in Known' <=> d \in Known) /\ d \notin announced' /\ ~Busy(t, d)'
  BY DEF KnownSame, Known, RemoveDevice, Busy
<1>2. \A u \in Thread \ {t} : (Going(u, d)' <=> Going(u, d)) /\ (Busy(u, d)' <=> Busy(u, d))
  BY DEF HandSame, Busy
<1>3. d \in Known => d \in missed' /\ d \in crossed'
  BY DEF DeviceInv, BackInv
<1>4. OwnerInv(d)' /\ DocInv(d)' /\ AnnouncedInv(d)' /\ BackInv(d)' /\ HeldInv(d)' /\ ShownInv(d)'
  BY <1>1, <1>3 DEF OwnerInv, DocInv, AnnouncedInv, BackInv, HeldInv, ShownInv
<1>5. GoneInv(d)'
  <2>. SUFFICES ASSUME d \notin Known, d \notin crossed, d \notin missed, connected
                PROVE  Clean(d)' /\ \A u \in Thread : ~Busy(u, d)'
    BY <1>1 DEF GoneInv
  <2>1. Clean(d)'
    BY <1>0 DEF RemoveDevice, Clean
  <2>2. Busy(t, d)
    BY DEF Busy
  <2>3. \A u \in Thread \ {t} : ~Busy(u, d)
    BY <2>2 DEF DeviceInv, GoneInv
  <2>. QED  BY <1>1, <1>2, <2>1, <2>3
<1>6. LatestInv(d)' /\ StoredInv(d)'
  BY DEF DeviceInv, LatestInv, StoredInv, Last, KnownSame
<1>7. DueInv(d)'
  <2>1. (Last(Due(t, d), d))'
    BY DEF Last
  <2>2. \A u \in Thread \ {t} : d \notin crossed => (Last(Due(u, d), d))'
    BY DEF DeviceInv, DueInv, HandSame, Last, KnownSame
  <2>. QED  BY <2>1, <2>2 DEF DueInv
<1>. QED  BY <1>4, <1>5, <1>6, <1>7 DEF DeviceInv

\* An event of the device is received; it is under way then.
LEMMA Receives ==
    ASSUME Form, Form', NEW d \in Device, DeviceInv(d), NEW t \in Thread,
           NEW e, e.dev = d, e.kind \in Kind, e.num \in Number, e.num <= events,
           stored'[d] = Put(stored[d], e.kind, e.num), owner'[d] # None,
           latest'[d] = [x \in Topic |-> IF x \in Carries[e.kind] THEN e.num ELSE latest[d][x]],
           Meet(t, e), BrokerSame(d), events' = events, connected' = connected,
           \A u \in Thread \ {t} : HandSame(u, d) /\ (Busy(u, d) => InHand(u, d)),
           ~Going(t, d), Due(t, d)' = {e}, ~Going(t, d)'
    PROVE  DeviceInv(d)'
<1>1. "deleted" \notin Kind
  BY Kinds
<1>2. Dict(stored[d])
  BY DictsOf DEF Form, Typed, KnownTyped
<1>. DEFINE new == [kind |-> e.kind, num |-> e.num]
            kept == {f \in EntriesOf(stored[d]) : Sink[f.kind] # Sink[e.kind]}
<1>3. EntriesOf(stored'[d]) = kept \cup {new}
  BY <1>2, EntriesOfPut
<1>4. d \in Known'
  <2>1. (d \in Known <=> EntriesOf(stored[d]) # {})'
    <3>1. Dict(stored'[d])
      BY DictsOf DEF Form, Typed, KnownTyped
    <3>2. IsSeq(stored'[d])
      BY <3>1, DictForm, AnySeq
    <3>. QED  BY <3>2, NoEntries DEF Known
  <2>. QED  BY <1>3, <2>1
<1>5. crossed' = (IF Crossing(t, e) THEN crossed \cup {d} ELSE crossed) /\ missed' = missed
  BY <1>1 DEF Meet
<1>6. d \notin crossed' => /\ d \notin crossed /\ \A u \in Thread \ {t} : ~Busy(u, d)
                           /\ \A x \in Topic \ Carries[e.kind] : ~Behind(d, x)
  BY <1>1, <1>5 DEF Crossing, Behind
<1>7. Busy(t, d)'
  BY DEF Busy
<1>8. \A x \in Topic : latest'[d][x] = IF x \in Carries[e.kind] THEN e.num ELSE latest[d][x]
  OBVIOUS
<1>9. \A x \in Topic : Behind(d, x)' => x \in Carries[e.kind] \/ Behind(d, x)
  BY <1>8 DEF Behind, BrokerSame
<1>10. OwnerInv(d)' /\ GoneInv(d)' /\ AnnouncedInv(d)'
  BY <1>4, <1>7 DEF OwnerInv, GoneInv, AnnouncedInv
<1>11. DocInv(d)'
  BY <1>5 DEF DeviceInv, DocInv, BrokerSame, HandSame
<1>12. BackInv(d)'
  <2>. SUFFICES ASSUME NEW u \in Thread, Going(u, d)' PROVE d \in crossed'
    BY DEF BackInv
  <2>1. u # t /\ Busy(u, d)
    BY DEF HandSame, Busy
  <2>. QED  BY <1>6, <2>1
<1>13. LatestInv(d)'
  BY <1>8 DEF DeviceInv, LatestInv
<1>14. StoredInv(d)'
  <2>. SUFFICES ASSUME NEW f \in kept \cup {new}, NEW x \in OwnTopic, x \in Carries[f.kind]
                PROVE  f.num = latest'[d][x]
    BY <1>3 DEF StoredInv, Last
  <2>0. x \in Topic
    BY Numbers
  <2>1. CASE f = new
    BY <1>8, <2>0, <2>1
  <2>2. CASE f \in kept
    <3>1. f \in EntriesOf(stored[d]) /\ Sink[f.kind] # Sink[e.kind]
      BY <2>2
    <3>2. f.kind \in Kind
      BY <1>2, <3>1, DictForm DEF EntriesOf, Entries
    <3>3. x \notin Carries[e.kind]
      BY <3>1, <3>2 DEF OwnTopic
    <3>4. f.num = latest[d][x]
      BY <3>1 DEF DeviceInv, StoredInv, Last
    <3>. QED  BY <1>8, <2>0, <3>3, <3>4
  <2>. QED  BY <2>1, <2>2
<1>. HIDE DEF kept
<1>15. DueInv(d)'
  <2>1. (Last(Due(t, d), d))'
    BY <1>8, Numbers DEF Last
  <2>2. \A u \in Thread \ {t} : d \notin crossed' => (Last(Due(u, d), d))'
    BY <1>6 DEF Busy, HandSame, Last
  <2>. QED  BY <2>1, <2>2 DEF DueInv
<1>16. \A x \in OwnTopic : d \notin crossed' /\ Behind(d, x)' => x \in Carries[e.kind]
  BY <1>6, <1>9, Numbers
<1>17. HeldInv(d)'
  <2>1. new \in EntriesOf(stored'[d]) /\ new.kind = e.kind
    BY <1>3
  <2>. HIDE DEF new
  <2>. QED  BY <1>16, <2>1 DEF HeldInv, Carried
<1>18. ShownInv(d)'
  BY <1>16 DEF ShownInv, Carried
<1>. QED  BY <1>10, <1>11, <1>12, <1>13, <1>14, <1>15, <1>17, <1>18 DEF DeviceInv

\* The device is deleted or forgotten; its removal is under way then.
LEMMA Deletes ==
    ASSUME Form, Form', NEW d \in Device, DeviceInv(d), NEW t \in Thread,
           NEW e, e.dev = d, e.kind = "deleted",
           stored'[d] = <<>>, latest'[d] = Empty,
           Meet(t, e), BrokerSame(d), events' = events, connected' = connected,
           \A u \in Thread \ {t} : HandSame(u, d) /\ (Busy(u, d) => InHand(u, d)),
           Due(t, d)' = {}, Going(t, d)'
    PROVE  DeviceInv(d)'
<1>1. d \notin Known'
  BY DEF Known
<1>2. OwnerInv(d)' /\ AnnouncedInv(d)' /\ BackInv(d)' /\ HeldInv(d)' /\ ShownInv(d)' /\ DocInv(d)'
  BY <1>1 DEF OwnerInv, AnnouncedInv, BackInv, HeldInv, ShownInv, DocInv
<1>3. d \notin crossed' => \A u \in Thread \ {t} : ~Busy(u, d)
  BY DEF Meet, Crossing
<1>4. GoneInv(d)'
  <2>1. d \notin crossed' => \A u \in Thread \ {t} : ~Busy(u, d)'
    BY <1>3 DEF HandSame, Busy
  <2>. QED  BY <2>1 DEF GoneInv
<1>5. \A x \in Topic : latest'[d][x] = 0
  BY DEF Empty
<1>6. LatestInv(d)'
  BY <1>5, Numbers DEF LatestInv
<1>7. StoredInv(d)'
  BY DEF StoredInv, Last, EntriesOf
<1>8. DueInv(d)'
  <2>1. (Last(Due(t, d), d))'
    BY DEF Last
  <2>2. \A u \in Thread \ {t} : d \notin crossed' => (Last(Due(u, d), d))'
    BY <1>3 DEF Busy, HandSame, Last
  <2>. QED  BY <2>1, <2>2 DEF DueInv
<1>. QED  BY <1>2, <1>4, <1>6, <1>7, <1>8 DEF DeviceInv

\* A setpoint of the device is chosen.
LEMMA Chosen ==
    ASSUME Form, Form', NEW d \in Device, DeviceInv(d), "setpoint" \in Topic, Choose(d)
    PROVE  DeviceInv(d)'
<1>0. DOMAIN value = Device /\ value[d] \in [Topic -> 0..MaxEvents] /\ events \in Nat
  BY Numbers DEF Form, Typed, ValuesTyped
<1>1. /\ value'[d] = [value[d] EXCEPT !["setpoint"] = events + 1] /\ events' = events + 1
      /\ value[d]["setpoint"] # 0
      /\ KnownSame(d) /\ PastSame(d) /\ disc' = disc /\ announced' = announced /\ starts' = starts
      /\ connected' = connected /\ pc' = pc
      /\ \A t \in Thread : HandSame(t, d)
  BY <1>0 DEF Choose, mem, past, bridge, thread, KnownSame, PastSame, HandSame, Due, Going
<1>2. d \in Known' <=> d \in Known
  BY <1>1 DEF KnownSame, Known
<1>3. \A t \in Thread : (Busy(t, d)' <=> Busy(t, d)) /\ (Going(t, d)' <=> Going(t, d))
  BY <1>1 DEF HandSame, Busy
<1>4. \A x \in Topic : Behind(d, x)' => Behind(d, x)
  <2>. SUFFICES ASSUME NEW x \in Topic, Behind(d, x)' PROVE Behind(d, x)
    OBVIOUS
  <2>1. value'[d][x] < latest[d][x]
    BY <1>1 DEF Behind, KnownSame
  <2>2. latest[d][x] <= events /\ latest[d][x] \in Nat
    BY Numbers DEF DeviceInv, LatestInv
  <2>3. x # "setpoint"
    BY <1>0, <1>1, <2>1, <2>2
  <2>. QED  BY <1>0, <1>1, <2>1, <2>3 DEF Behind
<1>5. OwnerInv(d)' /\ DocInv(d)' /\ AnnouncedInv(d)' /\ BackInv(d)'
  BY <1>1, <1>2, <1>3 DEF DeviceInv, OwnerInv, DocInv, AnnouncedInv, BackInv, KnownSame, PastSame
<1>6. GoneInv(d)'
  <2>1. ~Clean(d)
    BY <1>1 DEF Clean
  <2>. QED  BY <1>1, <1>2, <1>3, <2>1 DEF DeviceInv, GoneInv, PastSame
<1>7. LatestInv(d)'
  BY <1>1, Numbers DEF DeviceInv, LatestInv, KnownSame
<1>8. StoredInv(d)' /\ DueInv(d)'
  BY <1>1 DEF DeviceInv, StoredInv, DueInv, Last, KnownSame, PastSame, HandSame
<1>9. HeldInv(d)' /\ ShownInv(d)'
  BY <1>1, <1>2, <1>4, Numbers DEF DeviceInv, HeldInv, ShownInv, KnownSame, PastSame, HandSame
<1>. QED  BY <1>5, <1>6, <1>7, <1>8, <1>9 DEF DeviceInv

\* The gateway stops or crashes, and starts with what it saved.
LEMMA Restarted ==
    ASSUME Form, Form', SavedInv, SavedInv', NEW d \in Device, DeviceInv(d), Restart
    PROVE  DeviceInv(d)'
<1>1. /\ stored' = disk.stored /\ owner' = disk.owner /\ UNCHANGED <<latest, crossed, disc, value, events>>
      /\ announced' = {} /\ pc'[Mqtt] = "connect"
      /\ \A t \in Thread : pc'[t] \in {"connect", "idle"} /\ todo'[t][d] = <<>>
      /\ missed' = ((missed \cup {c \in Device : \E t \in Thread : Going(t, c)}) \ Known)
                       \cup {c \in Known : disk.owner[c] = None}
  BY Kinds DEF Restart, broker, NoTodo
<1>2. \A t \in Thread : Due(t, d)' = {} /\ ~Going(t, d)' /\ ~Busy(t, d)'
  BY <1>1 DEF Due, Going, Busy, EntriesOf
<1>3. EntriesOf(stored'[d]) = EntriesOf(stored[d])
  BY <1>1 DEF SavedInv
<1>4. d \in Known' <=> d \in Known
  <2>1. (d \in Known <=> EntriesOf(stored[d]) # {})'
    <3>1. Dict(stored'[d])
      BY DictsOf DEF Form, Typed, KnownTyped
    <3>2. IsSeq(stored'[d])
      BY <3>1, DictForm, AnySeq
    <3>. QED  BY <3>2, NoEntries DEF Known
  <2>. QED  BY <1>3, <2>1, KnownHas
<1>5. OwnerInv(d)'
  BY <1>1, <1>4 DEF OwnerInv, Known
<1>6. GoneInv(d)'
  <2>1. Clean(d)' <=> Clean(d)
    BY <1>1 DEF Clean
  <2>2. d \notin Known /\ (\E t \in Thread : Going(t, d)) => d \in missed'
    BY <1>1
  <2>3. d \notin Known /\ d \in missed => d \in missed'
    BY <1>1
  <2>. QED  BY <1>1, <1>2, <1>4, <2>1, <2>2, <2>3 DEF DeviceInv, GoneInv
<1>7. DocInv(d)' /\ AnnouncedInv(d)' /\ BackInv(d)' /\ ShownInv(d)'
  BY <1>1, <1>2 DEF DocInv, AnnouncedInv, BackInv, ShownInv
<1>8. LatestInv(d)' /\ StoredInv(d)' /\ DueInv(d)'
  BY <1>1, <1>2, <1>3 DEF DeviceInv, LatestInv, StoredInv, DueInv, Last
<1>9. HeldInv(d)'
  BY <1>1, <1>3, <1>4 DEF DeviceInv, HeldInv, Behind, Carried
<1>. QED  BY <1>5, <1>6, <1>7, <1>8, <1>9 DEF DeviceInv

-----------------------------------------------------------------------------
(* The steps, for a device *)

LEMMA HandStays ==
    ASSUME NEW u, NEW d, pc'[u] = pc[u], job'[u] = job[u], todo'[u][d] = todo[u][d]
    PROVE  HandSame(u, d)
  BY DEF HandSame, Due, Going

LEMMA HandEmpty ==
    ASSUME NEW u, NEW d, pc[u] \notin {"save", "publish"}, pc'[u] \notin {"save", "publish"},
           todo'[u][d] = todo[u][d]
    PROVE  HandSame(u, d)
  BY DEF HandSame, Due, Going

LEMMA BusyIsInHand ==
    ASSUME NEW u, NEW d \in Device, Busy(u, d)
    PROVE  InHand(u, d)
<1>1. EntriesOf(todo[u][d]) # {} => todo[u][d] # <<>>
  BY DEF EntriesOf
<1>. QED  BY <1>1 DEF Busy, Due, Going, InHand, Left

LEMMA RestedHas ==
    ASSUME TodoInv, NEW t \in Thread, pc[t] \notin {"group", "replay"}, NEW d \in Device
    PROVE  todo[t][d] = <<>> /\ EntriesOf(todo[t][d]) = {}
  BY DEF TodoInv, Left, EntriesOf

Sound == Form /\ SilentInv /\ HeardInv /\ TodoInv /\ SavedInv

\* The steps that are all about one thread and leave aside what is published.
LEMMA ThreadAside ==
    ASSUME Form, Form', NEW d \in Device, DeviceInv(d), NEW t \in Thread,
           \A u \in Thread \ {t} : pc'[u] = pc[u] /\ job'[u] = job[u] /\ todo'[u] = todo[u],
           HandSame(t, d), KnownSame(d), BrokerSame(d), PastSame(d),
           t = Mqtt => pc[Mqtt] # "connect", events <= events', connected' = connected
    PROVE  DeviceInv(d)'
<1>1. \A u \in Thread : HandSame(u, d)
  BY HandStays
<1>2. pc[Mqtt] = "connect" => pc'[Mqtt] = "connect"
  BY Kinds
<1>. QED  BY <1>1, <1>2, Aside

LEMMA LoadSteps ==
    ASSUME Sound, Form', NEW d \in Device, DeviceInv(d), NEW t \in Thread,
           pc[t] \notin {"group", "replay", "save", "publish"}, NEW P \in SUBSET Peer, NEW names,
           pc' = [pc EXCEPT ![t] = "group"], todo' = [todo EXCEPT ![t] = Stored(P, names)], job' = job,
           KnownSame(d), PastSame(d), disc' = disc, value' = value, starts' = starts,
           connected' = connected, events' = events, d \in announced' => d \in announced,
           \/ /\ d \in announced' <=> d \in announced
              /\ pc[Mqtt] = "connect" => pc'[Mqtt] = "connect"
           \/ P = Peer
    PROVE  DeviceInv(d)'
<1>1. /\ \A u \in Thread \ {t} : pc'[u] = pc[u] /\ job'[u] = job[u] /\ todo'[u] = todo[u]
      /\ pc'[t] = "group" /\ todo'[t] = Stored(P, names) /\ owner[d] \in Peer \cup {None}
  BY DEF Sound, Form, Typed, ThreadTyped, KnownTyped
<1>2. \A u \in Thread \ {t} : HandSame(u, d)
  BY <1>1, HandStays
<1>3. ~Busy(t, d) /\ ~Going(t, d)'
  BY <1>1, RestedHas DEF Sound, Busy, Due, Going
<1>4. Due(t, d)' = EntriesOf(Stored(P, names)[d])
  BY <1>1 DEF Due
<1>5. Mirrors(Due(t, d)', EntriesOf(stored[d]))
  <2>. SUFFICES ASSUME NEW e \in EntriesOf(Stored(P, names)[d])
                PROVE  \E f \in EntriesOf(stored[d]) : f.kind = e.kind /\ f.num = e.num
    BY <1>4 DEF Mirrors
  <2>1. CASE owner[d] \in P
    <3>1. e \in {Event(None, names[owner[d]], d, f.kind, f.num) : f \in EntriesOf(stored[d])}
      BY <2>1, EntriesOfStored
    <3>. QED  BY <3>1 DEF Event
  <2>2. CASE owner[d] \notin P
    <3>1. e \in {}
      BY <2>2, EntriesOfStored
    <3>. QED  BY <3>1
  <2>. QED  BY <2>1, <2>2
<1>6. ASSUME P = Peer, owner[d] # None PROVE Mirrors(EntriesOf(stored[d]), Due(t, d)')
  <2>1. EntriesOf(Stored(P, names)[d])
          = {Event(None, names[owner[d]], d, e.kind, e.num) : e \in EntriesOf(stored[d])}
    BY <1>1, <1>6, EntriesOfStored
  <2>2. ASSUME NEW e \in EntriesOf(stored[d])
        PROVE  \E f \in EntriesOf(Stored(P, names)[d]) : f.kind = e.kind /\ f.num = e.num
    <3>. DEFINE f == Event(None, names[owner[d]], d, e.kind, e.num)
    <3>1. f \in EntriesOf(Stored(P, names)[d]) /\ f.kind = e.kind /\ f.num = e.num
      BY <2>1 DEF Event
    <3>. QED  BY <3>1
  <2>. QED  BY <1>4, <2>2 DEF Mirrors
<1>. QED  BY <1>2, <1>3, <1>5, <1>6, Loads DEF Sound

LEMMA PostSteps ==
    ASSUME Sound, Form', NEW d \in Device, DeviceInv(d), NEW t \in Conn, NEW p \in Peer, NEW c, NEW k,
           Post(t, p, c, k)
    PROVE  DeviceInv(d)'
<1>1. /\ pc \in [Thread -> Steps] /\ DOMAIN job = Thread /\ t \in Thread /\ t # Mqtt /\ events \in Nat
  BY Kinds DEF Sound, Form, Typed, ThreadTyped, CountTyped
<1>2. /\ \A u \in Thread \ {t} : pc'[u] = pc[u] /\ job'[u] = job[u] /\ todo'[u] = todo[u]
      /\ pc[t] = "idle" /\ pc'[t] = "base" /\ todo' = todo /\ events <= events'
  BY <1>1 DEF Post, Goto
<1>3. KnownSame(d) /\ BrokerSame(d) /\ PastSame(d) /\ connected' = connected
  BY DEF Post, mem, bridge, broker, past, KnownSame, BrokerSame, PastSame
<1>. QED  BY <1>1, <1>2, <1>3, HandEmpty, ThreadAside DEF Sound

LEMMA RenameSteps ==
    ASSUME Sound, Form', NEW d \in Device, DeviceInv(d), NEW t \in Conn, Rename(t)
    PROVE  DeviceInv(d)'
<1>1. pc \in [Thread -> Steps] /\ t \in Thread /\ t # Mqtt /\ events \in Nat /\ Peer \subseteq Peer
  BY Kinds DEF Sound, Form, Typed, ThreadTyped, CountTyped
<1>2. /\ KnownSame(d) /\ PastSame(d) /\ UNCHANGED <<disc, value, connected, job, starts, events>>
      /\ pc[t] = "base"
  BY DEF Rename, counts, KnownSame, PastSame
<1>3. CASE pc' = [pc EXCEPT ![t] = "known"] /\ announced' = announced /\ todo' = todo
  <2>1. /\ \A u \in Thread \ {t} : pc'[u] = pc[u] /\ job'[u] = job[u] /\ todo'[u] = todo[u]
        /\ pc'[t] = "known" /\ BrokerSame(d)
    BY <1>1, <1>2, <1>3 DEF BrokerSame
  <2>. QED  BY <1>1, <1>2, <1>3, <2>1, HandEmpty, ThreadAside DEF Sound
<1>4. CASE \E names : /\ pc' = [pc EXCEPT ![t] = "group"]
                      /\ todo' = [todo EXCEPT ![t] = Stored(Peer, names)] /\ announced' = {}
  BY <1>1, <1>2, <1>4, LoadSteps
<1>. QED  BY <1>3, <1>4 DEF Rename, Retire, Goto

LEMMA BaseSteps ==
    ASSUME Sound, Form', NEW d \in Device, DeviceInv(d), NEW t \in Conn, Base(t)
    PROVE  DeviceInv(d)'
<1>1. pc \in [Thread -> Steps] /\ t \in Thread /\ t # Mqtt /\ events \in Nat /\ DOMAIN job = Thread
  BY Kinds DEF Sound, Form, Typed, ThreadTyped, CountTyped
<1>2. /\ KnownSame(d) /\ PastSame(d) /\ UNCHANGED <<disc, value, connected, starts, events>>
      /\ pc[t] = "known" /\ announced' = announced \cup {job[t].base}
  BY DEF Base, counts, past, mem, KnownSame, PastSame
<1>3. job[t].base \in Key /\ job[t].peer \in Peer
  BY <1>1, <1>2, ThreadHas DEF Sound, Form, HasJob
<1>4. d \in announced' <=> d \in announced
  BY <1>2, <1>3, Kinds
<1>5. CASE /\ \E s \in {"idle", "update"} : pc' = [pc EXCEPT ![t] = s]
           /\ todo' = todo /\ job' \in {job, [job EXCEPT ![t] = NoJob]}
  <2>1. /\ \A u \in Thread \ {t} : pc'[u] = pc[u] /\ job'[u] = job[u] /\ todo'[u] = todo[u]
        /\ pc'[t] \in {"idle", "update"} /\ BrokerSame(d)
    BY <1>1, <1>2, <1>4, <1>5 DEF BrokerSame
  <2>. QED  BY <1>1, <1>2, <1>5, <2>1, HandEmpty, ThreadAside DEF Sound
<1>6. CASE \E names : /\ pc' = [pc EXCEPT ![t] = "group"]
                      /\ todo' = [todo EXCEPT ![t] = Stored({job[t].peer}, names)] /\ job' = job
  <2>1. {job[t].peer} \in SUBSET Peer /\ (pc[Mqtt] = "connect" => pc'[Mqtt] = "connect")
    BY <1>1, <1>3, <1>6, Kinds
  <2>. QED  BY <1>1, <1>2, <1>4, <1>6, <2>1, LoadSteps
<1>. QED  BY <1>5, <1>6 DEF Base, Goto

\* What a section under the lock leaves alone, and what other threads have at hand then.
LEMMA OthersBusy ==
    ASSUME NEW d \in Device, NEW t \in Thread,
           \A u \in Thread \ {t} : pc'[u] = pc[u] /\ job'[u] = job[u] /\ todo'[u] = todo[u]
    PROVE  \A u \in Thread \ {t} : HandSame(u, d) /\ (Busy(u, d) => InHand(u, d))
  BY HandStays, BusyIsInHand

LEMMA UpdateSteps ==
    ASSUME Sound, Form', NEW d \in Device, DeviceInv(d), NEW t \in Conn, Update(t)
    PROVE  DeviceInv(d)'
<1>. DEFINE e == job[t]
            gone == e.kind = "deleted"
<1>1. /\ pc \in [Thread -> Steps] /\ t \in Thread /\ t # Mqtt /\ events \in Nat /\ DOMAIN job = Thread
      /\ DOMAIN stored = Device /\ DOMAIN owner = Device /\ DOMAIN latest = Device
  BY Kinds DEF Sound, Form, Typed, ThreadTyped, CountTyped, KnownTyped, ValuesTyped, Dicts
<1>2. /\ pc[t] = "update" /\ e.dev \in Device /\ e.peer \in Peer /\ e.kind \in Kind \cup {"deleted"}
      /\ e.kind \in Kind => e.num \in Number /\ e.num <= events
  <2>1. pc[t] = "update" /\ HasJob(t, pc[t], e) /\ e \in Events
    BY <1>1, ThreadHas DEF Update, Sound, Form
  <2>2. e.kind \in Kind => e.num \in 1..events
    BY <1>1 DEF Sound, HeardInv
  <2>. QED  BY <1>1, <2>1, <2>2, Kinds DEF HasJob, Events
<1>3. /\ stored' = [stored EXCEPT ![e.dev] = IF gone THEN <<>> ELSE Put(@, e.kind, e.num)]
      /\ owner' = [owner EXCEPT ![e.dev] = IF gone THEN None ELSE e.peer]
      /\ latest' = [latest EXCEPT ![e.dev] =
                       IF gone THEN Empty ELSE
                         [x \in Topic |-> IF x \in Carries[e.kind] THEN e.num ELSE @[x]]]
      /\ Meet(t, e) /\ UNCHANGED <<bridge, connected, broker, job, todo, counts>>
  BY DEF Update
<1>4. \E s \in {"publish", "save"} : pc' = [pc EXCEPT ![t] = s]
  BY DEF Update, Goto
<1>. HIDE DEF e, gone
<1>5. /\ \A u \in Thread \ {t} : pc'[u] = pc[u] /\ job'[u] = job[u] /\ todo'[u] = todo[u]
      /\ pc'[t] \in {"publish", "save"} /\ job'[t] = e
      /\ todo'[t][d] = <<>> /\ EntriesOf(todo[t][d]) = {} /\ EntriesOf(todo'[t][d]) = {}
      /\ UNCHANGED <<disc, value, announced, starts, events, connected>>
  BY <1>1, <1>2, <1>3, <1>4, RestedHas DEF e, Sound, broker, bridge, counts
<1>6. BrokerSame(d)
  BY <1>5 DEF BrokerSame
<1>7. \A u \in Thread \ {t} : HandSame(u, d) /\ (Busy(u, d) => InHand(u, d))
  BY <1>1, <1>5, OthersBusy
<1>8. CASE e.dev # d
  <2>1. KnownSame(d) /\ PastSame(d)
    BY <1>1, <1>2, <1>3, <1>8 DEF KnownSame, PastSame, Meet
  <2>2. HandSame(t, d)
    BY <1>2, <1>5, <1>8 DEF HandSame, Due, Going, e
  <2>. QED  BY <1>1, <1>5, <1>6, <2>1, <2>2, ThreadAside DEF Sound
<1>9. CASE e.dev = d /\ gone
  <2>1. stored'[d] = <<>> /\ latest'[d] = Empty
    BY <1>1, <1>3, <1>9
  <2>2. Due(t, d)' = {} /\ Going(t, d)'
    BY <1>5, <1>9 DEF Due, Going, gone
  <2>. QED  BY <1>1, <1>3, <1>5, <1>6, <1>7, <1>9, <2>1, <2>2, Deletes DEF gone, Sound
<1>10. CASE e.dev = d /\ ~gone
  <2>1. e.kind \in Kind /\ e.num \in Number /\ e.num <= events
    BY <1>2, <1>10 DEF gone
  <2>2. /\ stored'[d] = Put(stored[d], e.kind, e.num) /\ owner'[d] = e.peer
        /\ latest'[d] = [x \in Topic |-> IF x \in Carries[e.kind] THEN e.num ELSE latest[d][x]]
    BY <1>1, <1>3, <1>10
  <2>3. Due(t, d)' = {e} /\ ~Going(t, d)' /\ ~Going(t, d)
    BY <1>2, <1>5, <1>10 DEF Due, Going, gone
  <2>4. owner'[d] # None
    BY <1>2, <2>2, Kinds
  <2>. QED  BY <1>1, <1>3, <1>5, <1>6, <1>7, <1>10, <2>1, <2>2, <2>3, <2>4, Receives DEF Sound
<1>. QED  BY <1>8, <1>9, <1>10

LEMMA ForgetSteps ==
    ASSUME Sound, Form', NEW d \in Device, DeviceInv(d), NEW c \in Device, Forget(c)
    PROVE  DeviceInv(d)'
<1>. DEFINE e == Event(None, None, c, "deleted", 0)
<1>1. /\ pc \in [Thread -> Steps] /\ Mqtt \in Thread /\ events \in Nat /\ DOMAIN job = Thread
      /\ DOMAIN stored = Device /\ DOMAIN owner = Device /\ DOMAIN latest = Device
  BY Kinds DEF Sound, Form, Typed, ThreadTyped, CountTyped, KnownTyped, ValuesTyped, Dicts
<1>2. e.dev = c /\ e.kind = "deleted" /\ pc[Mqtt] = "idle"
  BY DEF Event, Forget
<1>3. /\ stored' = [stored EXCEPT ![c] = <<>>] /\ owner' = [owner EXCEPT ![c] = None]
      /\ latest' = [latest EXCEPT ![c] = Empty]
      /\ Meet(Mqtt, e) /\ job' = [job EXCEPT ![Mqtt] = e]
      /\ UNCHANGED <<bridge, connected, broker, todo, counts>>
      /\ \E s \in {"publish", "save"} : pc' = [pc EXCEPT ![Mqtt] = s]
  BY DEF Forget, Goto
<1>. HIDE DEF e
<1>4. /\ \A u \in Thread \ {Mqtt} : pc'[u] = pc[u] /\ job'[u] = job[u] /\ todo'[u] = todo[u]
      /\ pc'[Mqtt] \in {"publish", "save"} /\ job'[Mqtt] = e
      /\ EntriesOf(todo[Mqtt][d]) = {} /\ EntriesOf(todo'[Mqtt][d]) = {}
      /\ UNCHANGED <<disc, value, announced, starts, events, connected>>
  BY <1>1, <1>2, <1>3, RestedHas DEF Sound, broker, bridge, counts
<1>5. BrokerSame(d)
  BY <1>4 DEF BrokerSame
<1>6. \A u \in Thread \ {Mqtt} : HandSame(u, d) /\ (Busy(u, d) => InHand(u, d))
  BY <1>1, <1>4, OthersBusy
<1>7. CASE c # d
  <2>1. KnownSame(d) /\ PastSame(d)
    BY <1>1, <1>2, <1>3, <1>7 DEF KnownSame, PastSame, Meet
  <2>2. HandSame(Mqtt, d)
    BY <1>2, <1>4, <1>7 DEF HandSame, Due, Going
  <2>. QED  BY <1>1, <1>2, <1>4, <1>5, <2>1, <2>2, ThreadAside DEF Sound
<1>8. CASE c = d
  <2>1. stored'[d] = <<>> /\ latest'[d] = Empty
    BY <1>1, <1>3, <1>8
  <2>2. Due(Mqtt, d)' = {} /\ Going(Mqtt, d)'
    BY <1>2, <1>4, <1>8 DEF Due, Going
  <2>. QED  BY <1>1, <1>2, <1>3, <1>4, <1>5, <1>6, <1>8, <2>1, <2>2, Deletes DEF Sound
<1>. QED  BY <1>7, <1>8

LEMMA GroupStartSteps ==
    ASSUME Sound, Form', NEW d \in Device, DeviceInv(d), NEW t \in Thread, GroupStart(t)
    PROVE  DeviceInv(d)'
<1>1. /\ pc \in [Thread -> Steps] /\ events \in Nat /\ DOMAIN todo = Thread /\ DOMAIN todo[t] = Device
      /\ pc[t] = "group"
  BY DEF Sound, Form, Typed, ThreadTyped, CountTyped, GroupStart
<1>2. /\ KnownSame(d) /\ BrokerSame(d) /\ UNCHANGED <<connected, job, events, crossed>>
      /\ missed' = IF ready THEN missed ELSE missed \cup Left(t)
  BY DEF GroupStart, counts, mem, broker, KnownSame, BrokerSame
<1>3. \E s \in {"idle", "known", "replay"} : pc' = [pc EXCEPT ![t] = s]
  BY DEF GroupStart, Goto
<1>4. (todo' = todo /\ (ready \/ Left(t) = {})) \/ (~ready /\ todo' = [todo EXCEPT ![t] = NoTodo])
  BY DEF GroupStart
<1>5. /\ \A u \in Thread \ {t} : pc'[u] = pc[u] /\ job'[u] = job[u] /\ todo'[u] = todo[u]
      /\ pc'[t] \in {"idle", "known", "replay"}
  BY <1>1, <1>2, <1>3, <1>4
<1>6. CASE todo'[t][d] = todo[t][d] /\ (ready \/ d \notin Left(t))
  <2>1. PastSame(d)
    BY <1>2, <1>6 DEF PastSame
  <2>2. HandSame(t, d)
    BY <1>1, <1>5, <1>6, HandEmpty
  <2>. QED  BY <1>1, <1>2, <1>5, <2>1, <2>2, ThreadAside DEF Sound
<1>7. CASE ~ready /\ d \in Left(t) /\ todo'[t][d] = <<>>
  <2>1. Due(t, d)' = {} /\ ~Going(t, d)' /\ ~Going(t, d)
    BY <1>1, <1>5, <1>7 DEF Due, Going, EntriesOf
  <2>2. \A u \in Thread \ {t} : HandSame(u, d)
    BY <1>5, HandStays
  <2>3. d \in missed' /\ (d \in crossed' <=> d \in crossed)
    BY <1>2, <1>7
  <2>. QED  BY <1>2, <2>1, <2>2, <2>3, Loses DEF Sound
<1>8. \/ todo'[t][d] = todo[t][d] /\ (ready \/ d \notin Left(t))
      \/ ~ready /\ d \in Left(t) /\ todo'[t][d] = <<>>
  BY <1>1, <1>4 DEF NoTodo, Left
<1>. QED  BY <1>6, <1>7, <1>8

\* What publishing an event of another device leaves alone.
LEMMA PublishAside ==
    ASSUME Form, NEW d \in Device, NEW e, e.dev \in Device \ {d}, NEW b, PublishEvent(e, b),
           starts' = starts
    PROVE  BrokerSame(d) /\ PastSame(d)
<1>1. DOMAIN disc = Device /\ DOMAIN value = Device
  BY DEF Form, Typed, DocsTyped, ValuesTyped
<1>2. CASE e.kind = "deleted"
  BY <1>1, <1>2 DEF PublishEvent, RemoveDevice, BrokerSame, PastSame
<1>3. CASE e.kind # "deleted"
  <2>1. Announce(e.dev, b) /\ PublishValue(e)
    BY <1>3 DEF PublishEvent
  <2>2. disc'[d] = disc[d] /\ (d \in announced' <=> d \in announced)
    BY <1>1, <2>1 DEF Announce
  <2>3. value'[d] = value[d]
    BY <1>1, <2>1 DEF PublishValue, Shown
  <2>. QED  BY <2>2, <2>3 DEF PublishEvent, BrokerSame, PastSame
<1>. QED  BY <1>2, <1>3

LEMMA ReplaySteps ==
    ASSUME Sound, Form', NEW d \in Device, DeviceInv(d), NEW t \in Thread, ReplayOne(t)
    PROVE  DeviceInv(d)'
<1>1. /\ DOMAIN todo = Thread /\ DOMAIN todo[t] = Device /\ events \in Nat /\ pc[t] = "replay"
      /\ KnownSame(d) /\ UNCHANGED <<pc, job, connected, starts, events>>
  BY DEF Sound, Form, Typed, ThreadTyped, CountTyped, ReplayOne, counts, mem, KnownSame, PublishEvent
<1>2. PICK c \in InGroup(t) : /\ PublishEvent(Head(todo[t][c]), group[t])
                              /\ todo' = [todo EXCEPT ![t][c] = Tail(@)]
  BY DEF ReplayOne
<1>. DEFINE e == Head(todo[t][c])
<1>3. /\ c \in Device /\ todo[t][c] \in Seq(Replayed) /\ todo[t][c] # <<>>
      /\ IsSeq(todo[t][c]) /\ e \in Replayed /\ e \in EntriesOf(todo[t][c])
      /\ EntriesOf(todo[t][c]) = {e} \cup EntriesOf(Tail(todo[t][c]))
  <2>1. c \in Device /\ todo[t][c] # <<>> /\ todo[t][c] \in Seq(Replayed)
    BY <1>2, ThreadHas DEF InGroup, Left, Sound, Form
  <2>2. IsSeq(todo[t][c])
    BY <2>1, AnySeq
  <2>3. e \in Replayed
    BY <2>1
  <2>. QED  BY <2>1, <2>2, <2>3, EntriesOfRest
<1>4. e.dev = c /\ e.kind \in Kind /\ e.kind # "deleted"
  BY <1>3, Kinds DEF Sound, TodoInv, Replayed
<1>. HIDE DEF e
<1>5. /\ \A u \in Thread \ {t} : todo'[u] = todo[u]
      /\ \A x \in Device \ {c} : todo'[t][x] = todo[t][x]
      /\ todo'[t][c] = Tail(todo[t][c])
  BY <1>1, <1>2, <1>3
<1>6. \A u \in Thread \ {t} : HandSame(u, d)
  BY <1>1, <1>5, HandStays
<1>7. CASE c # d
  <2>1. HandSame(t, d)
    BY <1>1, <1>5, <1>7, HandStays
  <2>2. BrokerSame(d) /\ PastSame(d)
    BY <1>1, <1>2, <1>3, <1>4, <1>7, PublishAside DEF e, Sound
  <2>3. \A u \in Thread : HandSame(u, d)
    BY <1>6, <2>1
  <2>. QED  BY <1>1, <2>2, <2>3, Aside DEF Sound
<1>8. CASE c = d
  <2>1. Announce(d, group[t]) /\ PublishValue(e)
    BY <1>2, <1>4, <1>8 DEF PublishEvent, e
  <2>2. missed' = (IF ~connected /\ d \notin announced THEN missed \cup {d} ELSE missed)
        /\ crossed' = crossed
    BY <1>2, <1>4, <1>8 DEF PublishEvent, Unheard, e
  <2>3. Due(t, d) = EntriesOf(todo[t][d]) /\ Due(t, d)' = EntriesOf(Tail(todo[t][d]))
        /\ ~Going(t, d) /\ ~Going(t, d)'
    BY <1>1, <1>5, <1>8 DEF Due, Going
  <2>4. e \in Due(t, d) /\ Due(t, d)' \subseteq Due(t, d) /\ Due(t, d) \subseteq Due(t, d)' \cup {e}
    BY <1>3, <1>8, <2>3
  <2>5. (d \in missed' <=> d \in missed \/ (~connected /\ d \notin announced))
        /\ (d \in crossed' <=> d \in crossed)
    BY <2>2
  <2>. QED  BY <1>1, <1>4, <1>6, <1>8, <2>1, <2>3, <2>4, <2>5, Tells DEF Sound
<1>. QED  BY <1>7, <1>8

LEMMA PublishSteps ==
    ASSUME Sound, Form', NEW d \in Device, DeviceInv(d), NEW t \in Thread, Publish(t)
    PROVE  DeviceInv(d)'
<1>. DEFINE e == job[t]
<1>1. /\ pc \in [Thread -> Steps] /\ DOMAIN job = Thread /\ events \in Nat /\ pc[t] = "publish"
      /\ KnownSame(d) /\ UNCHANGED <<todo, connected, starts, events>>
      /\ PublishEvent(e, e.base) /\ pc' = [pc EXCEPT ![t] = "idle"]
      /\ job' = [job EXCEPT ![t] = NoJob]
  BY DEF Sound, Form, Typed, ThreadTyped, CountTyped, Publish, Goto, counts, mem, KnownSame, PublishEvent
<1>2. e.dev \in Device /\ e.kind \in Kind \cup {"deleted"}
  BY <1>1, ThreadHas DEF Sound, Form, HasJob, Events
<1>. HIDE DEF e
<1>3. /\ \A u \in Thread \ {t} : pc'[u] = pc[u] /\ job'[u] = job[u] /\ todo'[u] = todo[u]
      /\ pc'[t] = "idle" /\ EntriesOf(todo[t][d]) = {} /\ EntriesOf(todo'[t][d]) = {}
  BY <1>1, RestedHas DEF Sound
<1>4. \A u \in Thread \ {t} : HandSame(u, d)
  BY <1>3, HandStays
<1>5. Due(t, d)' = {} /\ ~Going(t, d)'
  BY <1>3 DEF Due, Going
<1>6. pc[Mqtt] = "connect" => pc'[Mqtt] = "connect"
  BY <1>1, <1>3, Kinds
<1>7. CASE e.dev # d
  <2>1. HandSame(t, d)
    BY <1>3, <1>5, <1>7 DEF HandSame, Due, Going, e
  <2>2. BrokerSame(d) /\ PastSame(d)
    BY <1>1, <1>2, <1>7, PublishAside DEF Sound
  <2>3. \A u \in Thread : HandSame(u, d)
    BY <1>4, <2>1
  <2>. QED  BY <1>1, <1>6, <2>2, <2>3, Aside DEF Sound
<1>8. CASE e.dev = d /\ e.kind = "deleted"
  <2>1. RemoveDevice(d) /\ crossed' = crossed
        /\ missed' = IF ~connected \/ d \in Known THEN missed \cup {d} ELSE missed
    BY <1>1, <1>8 DEF PublishEvent, Unheard
  <2>2. Going(t, d)
    BY <1>1, <1>8 DEF Going, e
  <2>3. (d \in missed' <=> d \in missed \/ ~connected \/ d \in Known)
        /\ (d \in crossed' <=> d \in crossed)
    BY <2>1
  <2>. QED  BY <1>1, <1>4, <1>5, <2>1, <2>2, <2>3, Removes DEF Sound
<1>9. CASE e.dev = d /\ e.kind # "deleted"
  <2>1. Announce(d, e.base) /\ PublishValue(e) /\ crossed' = crossed
        /\ missed' = IF ~connected /\ d \notin announced THEN missed \cup {d} ELSE missed
    BY <1>1, <1>9 DEF PublishEvent, Unheard
  <2>2. Due(t, d) = {e} /\ ~Going(t, d)
    BY <1>1, <1>3, <1>9 DEF Due, Going, e
  <2>3. (d \in missed' <=> d \in missed \/ (~connected /\ d \notin announced))
        /\ (d \in crossed' <=> d \in crossed) /\ e.kind \in Kind
    BY <1>2, <1>9, <2>1
  <2>4. e \in Due(t, d) /\ Due(t, d)' \subseteq Due(t, d) /\ Due(t, d) \subseteq Due(t, d)' \cup {e}
    BY <1>5, <2>2
  <2>. QED  BY <1>1, <1>4, <1>5, <1>6, <1>9, <2>1, <2>2, <2>3, <2>4, Tells DEF Sound
<1>. QED  BY <1>7, <1>8, <1>9

LEMMA OtherSteps ==
    ASSUME Sound, Form', NEW d \in Device, DeviceInv(d),
           \/ \E t \in Thread : ReplayEnd(t) \/ Save(t)
           \/ \E c \in Device \ {d} : Choose(c)
           \/ Assign \/ Drop \/ Reconnect \/ UNCHANGED vars
    PROVE  DeviceInv(d)'
<1>0. pc \in [Thread -> Steps] /\ events \in Nat /\ DOMAIN value = Device /\ Mqtt \in Thread
  BY Kinds DEF Sound, Form, Typed, ThreadTyped, CountTyped, ValuesTyped
<1>1. ASSUME NEW t \in Thread, ReplayEnd(t) PROVE DeviceInv(d)'
  <2>1. /\ UNCHANGED <<job, todo, connected, events>> /\ pc[t] = "replay" /\ pc'[t] = "group"
        /\ \A u \in Thread \ {t} : pc'[u] = pc[u]
        /\ KnownSame(d) /\ BrokerSame(d) /\ PastSame(d)
    BY <1>0, <1>1 DEF ReplayEnd, Goto, counts, mem, broker, KnownSame, BrokerSame, PastSame
  <2>. QED  BY <1>0, <2>1, HandEmpty, ThreadAside DEF Sound
<1>2. ASSUME NEW t \in Thread, Save(t) PROVE DeviceInv(d)'
  <2>1. /\ UNCHANGED <<job, todo, connected, events>> /\ pc[t] = "save" /\ pc'[t] = "publish"
        /\ \A u \in Thread \ {t} : pc'[u] = pc[u]
        /\ KnownSame(d) /\ BrokerSame(d) /\ PastSame(d)
    BY <1>0, <1>2 DEF Save, Goto, counts, mem, broker, bridge, past, KnownSame, BrokerSame, PastSame
  <2>2. HandSame(t, d)
    BY <2>1 DEF HandSame, Due, Going
  <2>. QED  BY <1>0, <2>1, <2>2, ThreadAside DEF Sound
<1>3. ASSUME NEW c \in Device \ {d}, Choose(c) PROVE DeviceInv(d)'
  <2>1. /\ UNCHANGED <<pc, job, todo, connected>> /\ events <= events'
        /\ KnownSame(d) /\ BrokerSame(d) /\ PastSame(d)
    BY <1>0, <1>3 DEF Choose, thread, mem, bridge, past, KnownSame, BrokerSame, PastSame
  <2>. QED  BY <2>1, HandStays, Aside DEF Sound
<1>4. ASSUME Assign \/ Drop \/ UNCHANGED vars PROVE DeviceInv(d)'
  <2>1. /\ UNCHANGED <<pc, job, todo, events>> /\ (connected' = connected \/ ~connected')
        /\ KnownSame(d) /\ BrokerSame(d) /\ PastSame(d)
    BY <1>4 DEF Assign, Drop, vars, thread, counts, mem, bridge, broker, past, KnownSame, BrokerSame,
       PastSame
  <2>2. \A u \in Thread : HandSame(u, d)
    BY <2>1, HandStays
  <2>3. connected' => connected
    BY <2>1
  <2>4. events <= events' /\ pc'[Mqtt] = pc[Mqtt]
    BY <1>0, <2>1
  <2>. QED  BY <2>1, <2>2, <2>3, <2>4, Aside DEF Sound
<1>5. ASSUME Reconnect PROVE DeviceInv(d)'
  <2>1. /\ UNCHANGED <<job, todo, events>> /\ pc[Mqtt] \in {"idle", "connect"} /\ pc'[Mqtt] = "connect"
        /\ \A u \in Thread \ {Mqtt} : pc'[u] = pc[u]
        /\ KnownSame(d) /\ BrokerSame(d) /\ PastSame(d)
    BY <1>0, <1>5 DEF Reconnect, Idle, Goto, counts, mem, bridge, broker, past, KnownSame, BrokerSame,
       PastSame
  <2>2. \A u \in Thread : HandSame(u, d)
    BY <1>0, <2>1, HandStays, HandEmpty
  <2>. QED  BY <1>0, <2>1, <2>2, Aside DEF Sound
<1>. QED  BY <1>1, <1>2, <1>3, <1>4, <1>5

LEMMA SnapshotSteps ==
    ASSUME Sound, Form', NEW d \in Device, DeviceInv(d), Snapshot
    PROVE  DeviceInv(d)'
<1>1. /\ KnownSame(d) /\ PastSame(d) /\ UNCHANGED <<disc, value, connected, job, starts, events, announced>>
      /\ pc[Mqtt] = "connect"
      /\ \E names : pc' = [pc EXCEPT ![Mqtt] = "group"] /\ todo' = [todo EXCEPT ![Mqtt] = Stored(Peer, names)]
  BY DEF Snapshot, Goto, counts, mem, past, bridge, broker, KnownSame, PastSame
<1>2. Mqtt \in Thread /\ Peer \in SUBSET Peer
  BY Kinds
<1>. QED  BY <1>1, <1>2, LoadSteps

LEMMA DeviceNext ==
    ASSUME Sound, Form', SavedInv', [Next]_vars, NEW d \in Device, DeviceInv(d)
    PROVE  DeviceInv(d)'
<1>1. ASSUME NEW t \in Conn, NEW p \in Peer, NEW c, NEW k, Post(t, p, c, k) PROVE DeviceInv(d)'
  BY <1>1, PostSteps
<1>2. ASSUME NEW t \in Conn, Rename(t) \/ Base(t) \/ Update(t) PROVE DeviceInv(d)'
  BY <1>2, RenameSteps, BaseSteps, UpdateSteps
<1>3. ASSUME NEW t \in Thread, GroupStart(t) \/ ReplayOne(t) \/ Publish(t) PROVE DeviceInv(d)'
  BY <1>3, GroupStartSteps, ReplaySteps, PublishSteps
<1>4. ASSUME NEW c \in Device, Forget(c) PROVE DeviceInv(d)'
  BY <1>4, ForgetSteps
<1>5. ASSUME "setpoint" \in Topic, Choose(d) PROVE DeviceInv(d)'
  BY <1>5, Chosen DEF Sound
<1>6. ASSUME \/ \E t \in Thread : ReplayEnd(t) \/ Save(t)
             \/ \E c \in Device \ {d} : Choose(c)
             \/ Assign \/ Drop \/ Reconnect \/ UNCHANGED vars
      PROVE  DeviceInv(d)'
  BY <1>6, OtherSteps
<1>7. ASSUME Snapshot PROVE DeviceInv(d)'
  BY <1>7, SnapshotSteps
<1>8. ASSUME Restart PROVE DeviceInv(d)'
  BY <1>8, Restarted DEF Sound
<1>. QED  BY <1>1, <1>2, <1>3, <1>4, <1>5, <1>6, <1>7, <1>8 DEF Next

Devices == Sound /\ \A d \in Device : DeviceInv(d)

LEMMA InitDevices == Init => Devices
<1>. SUFFICES ASSUME Init PROVE Devices
  OBVIOUS
<1>1. Form /\ SilentInv /\ HeardInv
  BY InitForm, InitHeard
<1>2. /\ \A d \in Device : stored[d] = <<>> /\ disk.stored[d] = <<>> /\ disc[d] = NoDoc
                         /\ value[d] = Empty /\ latest[d] = Empty
      /\ announced = {} /\ \A t \in Thread, d \in Device : todo[t][d] = <<>>
      /\ \A t \in Thread : pc[t] \in {"connect", "idle"}
  BY DEF Init, NoTodo
<1>3. TodoInv /\ SavedInv
  BY <1>2 DEF TodoInv, SavedInv, Left, EntriesOf
<1>4. ASSUME NEW d \in Device PROVE DeviceInv(d)
  <2>1. d \notin Known /\ \A t \in Thread : Due(t, d) = {} /\ ~Going(t, d) /\ ~Busy(t, d)
    BY <1>2 DEF Known, Due, Going, Busy, EntriesOf
  <2>2. OwnerInv(d) /\ DocInv(d) /\ AnnouncedInv(d) /\ BackInv(d) /\ HeldInv(d) /\ ShownInv(d)
    BY <1>2, <2>1 DEF OwnerInv, DocInv, AnnouncedInv, BackInv, HeldInv, ShownInv
  <2>3. GoneInv(d)
    <3>1. Clean(d)
      BY <1>2 DEF Clean, Empty
    <3>. QED  BY <1>2, <2>1, <3>1 DEF GoneInv
  <2>4. LatestInv(d)
    BY <1>2 DEF LatestInv, Empty, Init
  <2>5. StoredInv(d) /\ DueInv(d)
    BY <1>2, <2>1 DEF StoredInv, DueInv, Last, EntriesOf
  <2>. QED  BY <2>2, <2>3, <2>4, <2>5 DEF DeviceInv
<1>. QED  BY <1>1, <1>3, <1>4 DEF Devices, Sound

LEMMA NextDevices == Devices /\ [Next]_vars => Devices'
<1>. SUFFICES ASSUME Devices, [Next]_vars PROVE Devices'
  OBVIOUS
<1>1. Sound /\ Sound' /\ Form' /\ SavedInv'
  BY NextForm, SilentKept, HeardKept, TodoKept, SavedKept DEF Devices, Sound
<1>2. ASSUME NEW d \in Device PROVE DeviceInv(d)'
  BY <1>1, DeviceNext DEF Devices
<1>. QED  BY <1>1, <1>2 DEF Devices

LEMMA DevicesAlways == Spec => []Devices
  BY InitDevices, NextDevices, PTL DEF Spec

\* With nothing under way, a thread has nothing of a device at hand.
LEMMA QuietRests ==
    ASSUME Devices, Quiet, NEW d \in Device, NEW t \in Thread
    PROVE  Due(t, d) = {} /\ ~Going(t, d) /\ ~Busy(t, d)
<1>1. pc[t] = "idle"
  BY DEF Quiet
<1>2. EntriesOf(todo[t][d]) = {}
  BY <1>1, RestedHas DEF Devices, Sound
<1>. QED  BY <1>1, <1>2 DEF Due, Going, Busy

\* Of a device that was deleted or forgotten nothing stays on the broker but the topic
\* "pressure", whatever threads, restarts and broken connections come between, unless a
\* thread had the device at hand as it was received, or its removal was lost
\* (MqttBridge.remove_device, record, _forget_device, announce_known).
THEOREM NothingStays == Spec => []NoGhost
<1>1. ASSUME Devices PROVE NoGhost
  <2>. SUFFICES ASSUME Quiet, NEW d \in Device \ (Known \cup crossed \cup missed)
                PROVE  disc[d] = NoDoc /\ \A t \in Topic \ {"pressure"} : value[d][t] = 0
    BY DEF NoGhost
  <2>1. GoneInv(d) /\ \A t \in Thread : ~Going(t, d)
    BY <1>1, QuietRests DEF Devices, DeviceInv
  <2>. QED  BY <2>1 DEF GoneInv, Clean
<1>. QED  BY <1>1, DevicesAlways, PTL

\* Every known device has the discovery document of the gateway that runs, also after its
\* base took another key, after a restart and as it is received while it is replayed,
\* unless the document was lost on the way (announce_known, discovery, _retire_base_key).
THEOREM EveryDeviceAnnounced == Spec => []KnownIsAnnounced
<1>1. ASSUME Devices PROVE KnownIsAnnounced
  <2>. SUFFICES ASSUME Quiet, NEW d \in Known \ missed PROVE disc[d].version = starts
    BY DEF KnownIsAnnounced
  <2>0. d \in Device
    BY DEF Known
  <2>1. AnnouncedInv(d) /\ DocInv(d) /\ \A t \in Thread : ~Busy(t, d) /\ ~Going(t, d)
    BY <1>1, <2>0, QuietRests DEF Devices, DeviceInv
  <2>2. pc[Mqtt] # "connect"
    BY Kinds DEF Quiet
  <2>. QED  BY <2>1, <2>2 DEF AnnouncedInv, DocInv
<1>. QED  BY <1>1, DevicesAlways, PTL

\* A topic that is one sink's own shows the last event received that is about it, or a
\* setpoint chosen since, whatever is replayed, restarted or cut off meanwhile, unless the
\* event crossed another of the device (record, publish, _replay_all_known_devices).
THEOREM LastEventShown == Spec => []ValueIsCurrent
<1>1. ASSUME Devices PROVE ValueIsCurrent
  <2>. SUFFICES ASSUME Quiet, NEW d \in Known \ (crossed \cup missed), NEW x \in OwnTopic
                PROVE  value[d][x] >= latest[d][x]
    BY DEF ValueIsCurrent
  <2>0. d \in Device
    BY DEF Known
  <2>1. ShownInv(d) /\ \A t \in Thread : Due(t, d) = {}
    BY <1>1, <2>0, QuietRests DEF Devices, DeviceInv
  <2>2. pc[Mqtt] # "connect" /\ connected
    BY Kinds DEF Quiet
  <2>3. ~Behind(d, x)
    BY <2>1, <2>2 DEF ShownInv, Carried
  <2>4. value[d][x] \in Nat /\ latest[d][x] \in Nat
    BY <1>1, <2>0, Numbers DEF Devices, Sound
  <2>. QED  BY <2>3, <2>4 DEF Behind
<1>. QED  BY <1>1, DevicesAlways, PTL
=============================================================================
